---------------------------- MODULE Spec2Model ----------------------------
(***************************************************************************)
(* A model of the scheduler pallet (frame/scheduler/src/lib.rs): the       *)
(* Agenda and Lookup storage maps, the scheduling API (do_schedule,        *)
(* do_schedule_named, do_cancel, do_cancel_named, do_reschedule,           *)
(* do_reschedule_named) and the block hook on_initialize.                  *)
(*                                                                         *)
(* Option<T> is modelled as a sequence of length 0 (None) or 1 (Some).     *)
(* A periodic descriptor is None or Some(<<period, count>>).               *)
(***************************************************************************)
EXTENDS Integers, Sequences, FiniteSets, TLC

(***************************************************************************)
(* Bounds of the model.                                                    *)
(***************************************************************************)
\* on_initialize is called for the blocks 1..MaxBlock at most.
MaxBlock == 4
\* The blocks of a run in which the scheduling API is called between the
\* calls of on_initialize.
ApiBlocks == 2
\* Number of tasks the scheduling API stores in such a run.
MaxTasks == 2
\* Number of successful reschedule calls in such a run.
MaxMoves == 1
\* Number of requests for one hash that a run leaves outstanding.
MaxOutstanding == 3
\* Config::MaximumWeight, the weight limit of one on_initialize.
MaximumWeight == 10

\* schedule::HARD_DEADLINE (frame_support::traits::schedule).
HARD_DEADLINE == 63

None == <<>>
Some(x) == <<x>>
IsSome(o) == o # <<>>
Unwrap(o) == o[1]

\* The storage keys of Agenda the model ranges over: blocks 0..MaxBlock and the
\* slots a re-insertion made in block MaxBlock can reach.
Slots == 0..(MaxBlock + 2)

Names == {"a", "b", "long"}
Hashes == {"hLight", "hBig"}
Origins == {"Root", "Signed", "Other"}

(***************************************************************************)
(* Calls.  A call is known by name; a MaybeHashed call is either the value *)
(* itself or the hash of a preimage.                                       *)
(***************************************************************************)
Value(c) == [hashed |-> FALSE, ref |-> c]
Hash(h) == [hashed |-> TRUE, ref |-> h]

\* call.get_dispatch_info().weight
CallWeight(c) ==
    CASE c = "light" -> 2
      [] c = "fail" -> 2
      [] c = "heavy" -> 20
      [] OTHER -> 2

\* The result of call.dispatch(origin): the host reports an error for "fail".
DispatchOk(c) == c # "fail"

\* post_info.actual_weight of call.dispatch(origin): the weight the host
\* reports for the run, if it reports one.  The failing call reports less
\* than it declares.
ActualWeight(c) == IF c = "fail" THEN Some(1) ELSE None

\* The call a hash is the preimage hash of.
PreimageOf(h) == IF h = "hBig" THEN "big" ELSE "light"

\* EncodedCallOrHashOf::new: the encoded call must fit MaxCallLen.  A hash
\* always fits; the call "big" does not.
EncodeFits(call) == call.hashed \/ call.ref # "big"

VARIABLES
    now,        \* frame_system::Pallet::block_number()
    agenda,     \* Agenda: slot -> sequence of Option<Scheduled>
    lookup,     \* Lookup: name -> Option<TaskAddress>
    preimages,  \* the hashes whose preimage the PreimageProvider holds
    cfg,        \* the runtime configuration and the inputs of this run
    panicked,   \* on_initialize panicked: the block cannot be built
    last,       \* what the last successful call did: events and trace
    err,        \* the error the last call returned, if it returned one
    nextUid,    \* history: the number the next stored task gets
    moves,      \* history: the number of successful reschedule calls
    hist,       \* history: what became of each stored task
    outstanding \* PreimageProvider: per hash, request_preimage calls less
                \* unrequest_preimage calls made by the scheduler

vars == <<now, agenda, lookup, preimages, cfg, panicked, last, err, nextUid, moves, hist,
          outstanding>>


\* Config::MaxScheduledPerBlock, the bound of the BoundedVec of one slot.
MaxScheduledPerBlock == cfg.cap

(***************************************************************************)
(* Storage primitives (frame_support StorageMap over a BoundedVec).        *)
(***************************************************************************)
\* Agenda::<T>::decode_len(slot).unwrap_or(0)
decode_len(ag, slot) == Len(ag[slot])

\* The number of Agenda keys that hold a non-empty list.
AgendaCount(ag) == Cardinality({s \in Slots : Len(ag[s]) > 0})

\* Only the entries that hold a task count (a mutant of SlotFull).
SlotFullLive(list) ==
    Cardinality({i \in 1..Len(list) : IsSome(list[i])}) >= MaxScheduledPerBlock

\* A bound that lets one entry too many in (a mutant of SlotFull).
SlotFullOffByOne(list) == Len(list) > MaxScheduledPerBlock

\* The BoundedVec of a slot holds MaxScheduledPerBlock entries: nothing can be
\* appended to it.
SlotFull(list) == Len(list) >= MaxScheduledPerBlock

\* A bound that lets one key too many in (a mutant of AgendasFull).
AgendasFullOffByOne(ag, maxAgendas, slot) ==
    /\ IsSome(maxAgendas)
    /\ Len(ag[slot]) = 0
    /\ AgendaCount(ag) > Unwrap(maxAgendas)

\* MaxValues = MaxAgendas: the slot would be a new key of Agenda and MaxAgendas
\* keys are in use already.
AgendasFull(ag, maxAgendas, slot) ==
    /\ IsSome(maxAgendas)
    /\ Len(ag[slot]) = 0
    /\ AgendaCount(ag) >= Unwrap(maxAgendas)

\* Agenda::<T>::try_append(slot, entry): the entry is appended to the list of
\* the slot, unless the list is full or the map is.
try_append(ag, maxAgendas, slot, entry) ==
    IF SlotFull(ag[slot]) \/ AgendasFull(ag, maxAgendas, slot)
    THEN [ok |-> FALSE, agenda |-> ag]
    ELSE [ok |-> TRUE, agenda |-> [ag EXCEPT ![slot] = Append(@, entry)]]

\* agenda.get_mut(index): Some(entry) when the index is in the list.
get_mut(list, index) ==
    IF index + 1 \in 1..Len(list) THEN Some(list[index + 1]) ELSE None

\* The entry is removed from the list and the entries behind it move up (a
\* mutant of Vacate).
VacateRemoving(list, index) ==
    SubSeq(list, 1, index) \o SubSeq(list, index + 2, Len(list))

\* The entry is read but left in place (a mutant of Vacate).
VacateNothing(list, index) == list

\* *entry = None, or entry.take(): the entry at index becomes a tombstone.
Vacate(list, index) == [list EXCEPT ![index + 1] = None]

\* T::OriginPrivilegeCmp::cmp_privilege(left, right): Root is above every
\* signed origin, two equal origins are Equal.
cmp_privilege(left, right) ==
    CASE left = right -> Some("Equal")
      [] left = "Root" -> Some("Greater")
      [] right = "Root" -> Some("Less")
      [] OTHER -> None

\* Only a caller of lower privilege is refused, not one that cannot be
\* compared (a mutant of BadOrigin).
BadOriginLessOnly(origin, entry) ==
    /\ IsSome(origin)
    /\ IsSome(entry)
    /\ cmp_privilege(Unwrap(origin), Unwrap(entry).origin) = Some("Less")

\* matches!(cmp, Some(Ordering::Less) | None)
BadOrigin(origin, entry) ==
    /\ IsSome(origin)
    /\ IsSome(entry)
    /\ LET c == cmp_privilege(Unwrap(origin), Unwrap(entry).origin)
       IN  c = None \/ c = Some("Less")

(***************************************************************************)
(* Events.                                                                 *)
(***************************************************************************)
Scheduled(when, index) ==
    [ev |-> "Scheduled", when |-> when, index |-> index, id |-> None, ok |-> TRUE]
Canceled(when, index) ==
    [ev |-> "Canceled", when |-> when, index |-> index, id |-> None, ok |-> TRUE]
Dispatched(when, index, id, ok) ==
    [ev |-> "Dispatched", when |-> when, index |-> index, id |-> id, ok |-> ok]

(***************************************************************************)
(* The scheduling API.  Each operator gives the result of the call (res),  *)
(* the address it returns (ret), the storage after it and its events.      *)
(***************************************************************************)
At(x) == [after |-> FALSE, n |-> x]
After(x) == [after |-> TRUE, n |-> x]

\* The greatest block number: the last key of the Agenda.
BlockNumberMax == MaxBlock + 2

saturating_add(a, b) == IF a + b > BlockNumberMax THEN BlockNumberMax ELSE a + b

\* The current block itself is accepted (a mutant of resolve_time).
resolve_time_lax(when) ==
    LET t == IF when.after THEN saturating_add(saturating_add(now, when.n), 1) ELSE when.n
    IN  IF t < now THEN [ok |-> FALSE, when |-> t] ELSE [ok |-> TRUE, when |-> t]

\* resolve_time: After(x) is now + x + 1, saturating; a time that is not
\* after now is refused.
resolve_time(when) ==
    LET t == IF when.after THEN saturating_add(saturating_add(now, when.n), 1) ELSE when.n
    IN  IF t <= now THEN [ok |-> FALSE, when |-> t] ELSE [ok |-> TRUE, when |-> t]

\* The filter is left out: every periodic argument is stored, its count
\* lowered by one (a mutant of Sanitize).
SanitizeUnfiltered(maybe_periodic) ==
    IF IsSome(maybe_periodic)
    THEN Some(<<Unwrap(maybe_periodic)[1],
                IF Unwrap(maybe_periodic)[2] > 0 THEN Unwrap(maybe_periodic)[2] - 1 ELSE 0>>)
    ELSE None

\* maybe_periodic.filter(|p| p.1 > 1 && !p.0.is_zero()).map(|(p, c)| (p, c - 1))
Sanitize(maybe_periodic) ==
    IF IsSome(maybe_periodic) /\ Unwrap(maybe_periodic)[2] > 1 /\ Unwrap(maybe_periodic)[1] # 0
    THEN Some(<<Unwrap(maybe_periodic)[1], Unwrap(maybe_periodic)[2] - 1>>)
    ELSE None

\* The history a stored task carries with it (not part of Scheduled): its
\* number, the slot and the periodic argument it was scheduled with, the number
\* of times it has been dispatched, and whether it has been moved to another
\* slot than the ones its period gives (postponed, deferred or rescheduled).
History(uid, when, maybe_periodic) ==
    [uid |-> uid, at |-> when, asked |-> maybe_periodic, runs |-> 0, moved |-> FALSE]

Moved(task) == [task EXCEPT !.h.moved = TRUE]

\* call.ensure_unrequested::<PreimageProvider>(): the hashes the call makes
\* the provider release, one unrequest_preimage for a hash, none for a value.
ensure_unrequested(call) == IF call.hashed THEN <<call.ref>> ELSE <<>>

\* call.ensure_requested::<PreimageProvider>(): one request_preimage for a
\* hash, none for a value.
ensure_requested(call) == IF call.hashed THEN <<call.ref>> ELSE <<>>

Failure(error, ag, lk) ==
    [res |-> error, ret |-> None, agenda |-> ag, lookup |-> lk, events |-> <<>>,
     removed |-> None, unrequested |-> <<>>, requested |-> <<>>]

\* An error returned after call.ensure_requested.
FailureRequested(error, ag, lk, call) ==
    [Failure(error, ag, lk) EXCEPT !.requested = ensure_requested(call)]

\* The index returned is the length of the slot after the append (a mutant
\* of do_schedule).
do_schedule_length(ag, lk, when, maybe_periodic, priority, origin, call, uid) ==
    LET t == resolve_time(when)
        s == [maybe_id |-> None, priority |-> priority, call |-> call,
              maybe_periodic |-> Sanitize(maybe_periodic), origin |-> origin,
              h |-> History(uid, t.when, maybe_periodic)]
        app == try_append(ag, cfg.maxAgendas, t.when, Some(s))
        index == decode_len(app.agenda, t.when)
    IN  IF ~t.ok THEN Failure("TargetBlockNumberInPast", ag, lk)
        ELSE IF ~EncodeFits(call) THEN FailureRequested("CallTooLong", ag, lk, call)
        ELSE IF ~app.ok THEN FailureRequested("TooManyAgendas", ag, lk, call)
        ELSE [res |-> "Ok", ret |-> Some(<<t.when, index>>), agenda |-> app.agenda,
              lookup |-> lk, events |-> <<Scheduled(t.when, index)>>,
              removed |-> None, unrequested |-> <<>>,
              requested |-> ensure_requested(call)]

do_schedule(ag, lk, when, maybe_periodic, priority, origin, call, uid) ==
    LET t == resolve_time(when)
        s == [maybe_id |-> None, priority |-> priority, call |-> call,
              maybe_periodic |-> Sanitize(maybe_periodic), origin |-> origin,
              h |-> History(uid, t.when, maybe_periodic)]
        app == try_append(ag, cfg.maxAgendas, t.when, Some(s))
        index == decode_len(app.agenda, t.when) - 1
    IN  IF ~t.ok THEN Failure("TargetBlockNumberInPast", ag, lk)
        ELSE IF ~EncodeFits(call) THEN FailureRequested("CallTooLong", ag, lk, call)
        ELSE IF ~app.ok THEN FailureRequested("TooManyAgendas", ag, lk, call)
        ELSE [res |-> "Ok", ret |-> Some(<<t.when, index>>), agenda |-> app.agenda,
              lookup |-> lk, events |-> <<Scheduled(t.when, index)>>,
              removed |-> None, unrequested |-> <<>>,
              requested |-> ensure_requested(call)]

\* Lookup is not asked whether it holds the name (a mutant of
\* do_schedule_named).
do_schedule_named_unasked(ag, lk, id, when, maybe_periodic, priority, origin, call, uid) ==
    LET t == resolve_time(when)
        s == [maybe_id |-> Some(id), priority |-> priority, call |-> call,
              maybe_periodic |-> Sanitize(maybe_periodic), origin |-> origin,
              h |-> History(uid, t.when, maybe_periodic)]
        app == try_append(ag, cfg.maxAgendas, t.when, Some(s))
        index == decode_len(app.agenda, t.when) - 1
    IN  IF ~t.ok THEN Failure("TargetBlockNumberInPast", ag, lk)
        ELSE IF ~EncodeFits(call) THEN FailureRequested("CallTooLong", ag, lk, call)
        ELSE IF ~app.ok THEN FailureRequested("TooManyAgendas", ag, lk, call)
        ELSE [res |-> "Ok", ret |-> Some(<<t.when, index>>), agenda |-> app.agenda,
              lookup |-> [lk EXCEPT ![id] = Some(<<t.when, index>>)],
              events |-> <<Scheduled(t.when, index)>>, removed |-> None,
              unrequested |-> <<>>, requested |-> ensure_requested(call)]

do_schedule_named(ag, lk, id, when, maybe_periodic, priority, origin, call, uid) ==
    LET t == resolve_time(when)
        s == [maybe_id |-> Some(id), priority |-> priority, call |-> call,
              maybe_periodic |-> Sanitize(maybe_periodic), origin |-> origin,
              h |-> History(uid, t.when, maybe_periodic)]
        app == try_append(ag, cfg.maxAgendas, t.when, Some(s))
        index == decode_len(app.agenda, t.when) - 1
    IN  IF IsSome(lk[id]) THEN Failure("FailedToSchedule", ag, lk)
        ELSE IF ~t.ok THEN Failure("TargetBlockNumberInPast", ag, lk)
        ELSE IF ~EncodeFits(call) THEN FailureRequested("CallTooLong", ag, lk, call)
        ELSE IF ~app.ok THEN FailureRequested("TooManyAgendas", ag, lk, call)
        ELSE [res |-> "Ok", ret |-> Some(<<t.when, index>>), agenda |-> app.agenda,
              lookup |-> [lk EXCEPT ![id] = Some(<<t.when, index>>)],
              events |-> <<Scheduled(t.when, index)>>, removed |-> None,
              unrequested |-> <<>>, requested |-> ensure_requested(call)]

\* do_cancel: the entry at the address, if it is there, becomes a tombstone;
\* the Lookup entry of the task's name is removed.
do_cancel(ag, lk, origin, when, index) ==
    LET e == get_mut(ag[when], index)
        scheduled == IF IsSome(e) THEN Unwrap(e) ELSE None
    IN  IF IsSome(e) /\ BadOrigin(origin, Unwrap(e)) THEN Failure("BadOrigin", ag, lk)
        ELSE IF ~IsSome(scheduled) THEN Failure("NotFound", ag, lk)
        ELSE [res |-> "Ok", ret |-> None,
              agenda |-> [ag EXCEPT ![when] = Vacate(@, index)],
              lookup |-> IF IsSome(Unwrap(scheduled).maybe_id)
                         THEN [lk EXCEPT ![Unwrap(Unwrap(scheduled).maybe_id)] = None]
                         ELSE lk,
              events |-> <<Canceled(when, index)>>, removed |-> scheduled,
              unrequested |-> ensure_unrequested(Unwrap(scheduled).call),
              requested |-> <<>>]

\* The index returned is the length of the new slot after the append (a
\* mutant of do_reschedule).
do_reschedule_length(ag, lk, when, index, new_time) ==
    LET t == resolve_time(new_time)
        e == get_mut(ag[when], index)
        task == IF IsSome(e) THEN Unwrap(e) ELSE None
        app == try_append(ag, cfg.maxAgendas, t.when, Some(Moved(Unwrap(task))))
        new_index == decode_len(app.agenda, t.when)
    IN  IF ~t.ok THEN Failure("TargetBlockNumberInPast", ag, lk)
        ELSE IF t.when = when THEN Failure("RescheduleNoChange", ag, lk)
        ELSE IF ~IsSome(task) THEN Failure("NotFound", ag, lk)
        ELSE IF ~app.ok THEN Failure("TooManyAgendas", ag, lk)
        ELSE [res |-> "Ok", ret |-> Some(<<t.when, new_index>>),
              agenda |-> [app.agenda EXCEPT ![when] = Vacate(@, index)],
              lookup |-> lk,
              events |-> <<Canceled(when, index), Scheduled(t.when, new_index)>>,
              removed |-> None, unrequested |-> <<>>, requested |-> <<>>]

\* do_reschedule: the task at the address is taken and appended to the new
\* slot.  Lookup is not touched.
do_reschedule(ag, lk, when, index, new_time) ==
    LET t == resolve_time(new_time)
        e == get_mut(ag[when], index)
        task == IF IsSome(e) THEN Unwrap(e) ELSE None
        app == try_append(ag, cfg.maxAgendas, t.when, Some(Moved(Unwrap(task))))
        new_index == decode_len(app.agenda, t.when) - 1
    IN  IF ~t.ok THEN Failure("TargetBlockNumberInPast", ag, lk)
        ELSE IF t.when = when THEN Failure("RescheduleNoChange", ag, lk)
        ELSE IF ~IsSome(task) THEN Failure("NotFound", ag, lk)
        ELSE IF ~app.ok THEN Failure("TooManyAgendas", ag, lk)
        ELSE [res |-> "Ok", ret |-> Some(<<t.when, new_index>>),
              agenda |-> [app.agenda EXCEPT ![when] = Vacate(@, index)],
              lookup |-> lk,
              events |-> <<Canceled(when, index), Scheduled(t.when, new_index)>>,
              removed |-> None, unrequested |-> <<>>, requested |-> <<>>]

\* The Lookup entry is taken before the origin is checked, and stays taken
\* when the check fails (a mutant of do_cancel_named).
do_cancel_named_taking(ag, lk, origin, id) ==
    LET when == Unwrap(lk[id])[1]
        index == Unwrap(lk[id])[2]
        e == get_mut(ag[when], index)
    IN  IF ~IsSome(lk[id]) THEN Failure("NotFound", ag, lk)
        ELSE IF IsSome(e) /\ BadOrigin(origin, Unwrap(e))
        THEN Failure("BadOrigin", ag, [lk EXCEPT ![id] = None])
        ELSE [res |-> "Ok", ret |-> None,
              agenda |-> IF IsSome(e) THEN [ag EXCEPT ![when] = Vacate(@, index)] ELSE ag,
              lookup |-> [lk EXCEPT ![id] = None],
              events |-> <<Canceled(when, index)>>,
              removed |-> IF IsSome(e) THEN Unwrap(e) ELSE None,
              unrequested |-> IF IsSome(origin) /\ IsSome(e) /\ IsSome(Unwrap(e))
                              THEN ensure_unrequested(Unwrap(Unwrap(e)).call)
                              ELSE <<>>,
              requested |-> <<>>]

\* do_cancel_named: the Lookup entry is taken; the entry it points at, if the
\* index is in the list, becomes a tombstone.
do_cancel_named(ag, lk, origin, id) ==
    LET when == Unwrap(lk[id])[1]
        index == Unwrap(lk[id])[2]
        e == get_mut(ag[when], index)
    IN  IF ~IsSome(lk[id]) THEN Failure("NotFound", ag, lk)
        ELSE IF IsSome(e) /\ BadOrigin(origin, Unwrap(e)) THEN Failure("BadOrigin", ag, lk)
        ELSE [res |-> "Ok", ret |-> None,
              agenda |-> IF IsSome(e) THEN [ag EXCEPT ![when] = Vacate(@, index)] ELSE ag,
              lookup |-> [lk EXCEPT ![id] = None],
              events |-> <<Canceled(when, index)>>,
              removed |-> IF IsSome(e) THEN Unwrap(e) ELSE None,
              unrequested |-> IF IsSome(origin) /\ IsSome(e) /\ IsSome(Unwrap(e))
                              THEN ensure_unrequested(Unwrap(Unwrap(e)).call)
                              ELSE <<>>,
              requested |-> <<>>]

\* do_reschedule_named: as do_reschedule, at the address Lookup holds for the
\* name; Lookup then holds the new address.
do_reschedule_named(ag, lk, id, new_time) ==
    LET t == resolve_time(new_time)
        when == Unwrap(lk[id])[1]
        index == Unwrap(lk[id])[2]
        e == get_mut(ag[when], index)
        task == IF IsSome(e) THEN Unwrap(e) ELSE None
        app == try_append(ag, cfg.maxAgendas, t.when, Some(Moved(Unwrap(task))))
        new_index == decode_len(app.agenda, t.when) - 1
    IN  IF ~t.ok THEN Failure("TargetBlockNumberInPast", ag, lk)
        ELSE IF ~IsSome(lk[id]) THEN Failure("NotFound", ag, lk)
        ELSE IF t.when = when THEN Failure("RescheduleNoChange", ag, lk)
        ELSE IF ~IsSome(task) THEN Failure("NotFound", ag, lk)
        ELSE IF ~app.ok THEN Failure("TooManyAgendas", ag, lk)
        ELSE [res |-> "Ok", ret |-> Some(<<t.when, new_index>>),
              agenda |-> [app.agenda EXCEPT ![when] = Vacate(@, index)],
              lookup |-> [lk EXCEPT ![id] = Some(<<t.when, new_index>>)],
              events |-> <<Canceled(when, index), Scheduled(t.when, new_index)>>,
              removed |-> None, unrequested |-> <<>>, requested |-> <<>>]

\* id.try_into(): a name longer than the bound of ScheduleIdOf is refused.
IdFits(id) == id # "long"

\* The calls that take the name as bytes: the extrinsics schedule_named and
\* cancel_named and Named::reschedule_named.
schedule_named(ag, lk, id, when, maybe_periodic, priority, origin, call, uid) ==
    IF ~IdFits(id) THEN Failure("ScheduleIdTooLong", ag, lk)
    ELSE do_schedule_named(ag, lk, id, when, maybe_periodic, priority, origin, call, uid)

cancel_named(ag, lk, origin, id) ==
    IF ~IdFits(id) THEN Failure("ScheduleIdTooLong", ag, lk)
    ELSE do_cancel_named(ag, lk, origin, id)

reschedule_named(ag, lk, id, new_time) ==
    IF ~IdFits(id) THEN Failure("ScheduleIdTooLong", ag, lk)
    ELSE do_reschedule_named(ag, lk, id, new_time)

\* Anon::next_dispatch_time((when, index)):
\* Agenda::get(when).get(index).ok_or(()).map(|_| when)
next_dispatch_time(ag, when, index) ==
    IF IsSome(get_mut(ag[when], index))
    THEN [ok |-> TRUE, when |-> when]
    ELSE [ok |-> FALSE, when |-> 0]

\* Named::next_dispatch_time(id): the same for the address Lookup holds for
\* the name.
next_dispatch_time_named(ag, lk, id) ==
    IF ~IdFits(id) \/ lk[id] = None THEN [ok |-> FALSE, when |-> 0]
    ELSE next_dispatch_time(ag, Unwrap(lk[id])[1], Unwrap(lk[id])[2])

(***************************************************************************)
(* on_initialize.                                                          *)
(***************************************************************************)
\* T::WeightInfo::on_initialize(0)
BaseWeight == 1

\* MarginalWeightInfo::item(periodic, named, resolved), resolved being
\* None (the item is aborted), Some(FALSE) or Some(TRUE).
item(periodic, named, resolved) ==
    IF resolved = None
    THEN 1 + (IF named THEN 1 ELSE 0)
    ELSE 1 + (IF periodic THEN 1 ELSE 0) + (IF named THEN 1 ELSE 0)
           + (IF Unwrap(resolved) THEN 1 ELSE 0)

\* The greatest Weight (Weight is u64), scaled down.
WeightMax == 40

\* Weight::saturating_add: the sum, or the greatest Weight when the sum
\* would pass it.
weight_saturating_add(a, b) == IF a + b > WeightMax THEN WeightMax ELSE a + b

\* The declared weight stands for the weight of the run (a mutant of
\* actual_call_weight).
declared_call_weight(c) == CallWeight(c)

\* let actual_call_weight = maybe_actual_call_weight.unwrap_or(call_weight)
actual_call_weight(c) ==
    IF IsSome(ActualWeight(c)) THEN Unwrap(ActualWeight(c)) ELSE CallWeight(c)

\* T::DbWeight::get().reads_writes(1, 1), added for a signed origin.
SignedWeight(origin) == IF origin = "Root" THEN 0 ELSE 1

\* The live entries are numbered after the cancelled ones are left out (a
\* mutant of Enumerate).
RECURSIVE EnumerateLive(_, _)
EnumerateLive(list, i) ==
    IF i > Len(list) THEN <<>>
    ELSE IF IsSome(list[i])
         THEN <<[index |-> Cardinality({j \in 1..(i - 1) : IsSome(list[j])}),
                 s |-> Unwrap(list[i])]>> \o EnumerateLive(list, i + 1)
         ELSE EnumerateLive(list, i + 1)

\* Agenda::take(now).into_iter().enumerate().filter_map(..): the live entries
\* of the list with their indices, in index order.
RECURSIVE Enumerate(_, _)
Enumerate(list, i) ==
    IF i > Len(list) THEN <<>>
    ELSE IF IsSome(list[i])
         THEN <<[index |-> i - 1, s |-> Unwrap(list[i])]>> \o Enumerate(list, i + 1)
         ELSE Enumerate(list, i + 1)

\* The queue is left in index order (a mutant of SortKey).
SortKeyIndex(q) == q.index

\* The key queued.sort_by_key sorts by.
SortKey(q) == q.s.priority

\* One step of a stable insertion sort: q goes behind every element whose key
\* is not greater than its own.
RECURSIVE InsertSorted(_, _)
InsertSorted(sorted, q) ==
    IF sorted = <<>> THEN <<q>>
    ELSE IF SortKey(Head(sorted)) <= SortKey(q)
         THEN <<Head(sorted)>> \o InsertSorted(Tail(sorted), q)
         ELSE <<q>> \o sorted

\* queued.sort_by_key(|(_, s)| s.priority), a stable sort.
RECURSIVE sort_by_key(_)
sort_by_key(queued) ==
    IF queued = <<>> THEN <<>>
    ELSE InsertSorted(sort_by_key(SubSeq(queued, 1, Len(queued) - 1)), queued[Len(queued)])

\* MaybeHashed::resolved::<PreimageProvider>(): the call as a value when it
\* is one or when its preimage is there, and the hash that was completed.
resolved(call) ==
    IF call.hashed /\ call.ref \in preimages
    THEN [call |-> Value(PreimageOf(call.ref)), maybe_completed |-> Some(call.ref)]
    ELSE [call |-> call, maybe_completed |-> None]

\* let hard_deadline = s.priority <= schedule::HARD_DEADLINE
hard_deadline(priority) == priority <= HARD_DEADLINE

\* The first task of the queue is not exempt (a mutant of OverLimit).
OverLimitAlsoFirst(priority, order, test_weight) ==
    ~hard_deadline(priority) /\ test_weight > MaximumWeight

\* The first two tasks of the queue are exempt, not only the first (a mutant
\* of OverLimit).
OverLimitFromThird(priority, order, test_weight) ==
    ~hard_deadline(priority) /\ order > 1 /\ test_weight > MaximumWeight

\* The test that postpones a task to the next block.
OverLimit(priority, order, test_weight) ==
    ~hard_deadline(priority) /\ order > 0 /\ test_weight > MaximumWeight

\* The record of one task's pass through the loop.
StepRecord(order, index, s, outcome, spent, item_weight, call_weight, target) ==
    [order |-> order, index |-> index, s |-> s, outcome |-> outcome,
     spent |-> spent, item_weight |-> item_weight, call_weight |-> call_weight,
     target |-> target]

\* Lookup::insert(id, (slot, decode_len(slot))) for a named task, then
\* Agenda::try_append(slot, Some(s)).expect(..): a panic when it fails.
Reinsert(st, slot, s) ==
    LET app == try_append(st.agenda, cfg.maxAgendas, slot, Some(s))
    IN  IF ~app.ok THEN [st EXCEPT !.panicked = TRUE]
        ELSE [st EXCEPT
                !.lookup = IF IsSome(s.maybe_id)
                           THEN [@ EXCEPT ![Unwrap(s.maybe_id)] =
                                    Some(<<slot, decode_len(st.agenda, slot)>>)]
                           ELSE @,
                !.agenda = app.agenda]

\* The wake-up block of a periodic task dispatched in block n.
Wake(n, period) == n + period

\* The resolved call is not written into the task (a mutant of with_call).
with_call_kept(s0, call) == s0

\* s.call = EncodedCallOrHashOf::new(call): the task carries what resolved
\* returned.
with_call(s0, call) == [s0 EXCEPT !.call = call]

\* The body of the loop for the task s at position order of the sorted queue.
ServiceTask(st, n, order, index, s0) ==
    LET named == IsSome(s0.maybe_id)
        lk == IF named THEN [st.lookup EXCEPT ![Unwrap(s0.maybe_id)] = None]
              ELSE st.lookup
        r == resolved(s0.call)
        s == with_call(s0, r.call)
        was_resolved == IsSome(r.maybe_completed)
        st1 == [st EXCEPT !.lookup = lk,
                          !.unrequested = IF was_resolved
                                          THEN Append(@, Unwrap(r.maybe_completed))
                                          ELSE @]
        spent == st.total_weight
    IN  IF ~EncodeFits(r.call)
        THEN \* EncodedCallOrHashOf::new(call).expect("todo")
             [st1 EXCEPT !.panicked = TRUE]
        ELSE IF s.call.hashed
        THEN \* Preimage not available - postpone until some block.
             LET st2 == [st1 EXCEPT !.total_weight =
                                     weight_saturating_add(@, item(FALSE, named, None))]
             IN  IF IsSome(cfg.delay)
                 THEN LET until == n + Unwrap(cfg.delay)
                          st3 == Reinsert(st2, until, Moved(s))
                      IN  [st3 EXCEPT
                             !.steps = Append(@, StepRecord(order, index, s0, "postponed",
                                                  spent, 0, 0, until))]
                 ELSE [st2 EXCEPT
                         !.steps = Append(@, StepRecord(order, index, s0, "dropped",
                                              spent, 0, 0, 0)),
                         !.hist[s.h.uid] = "dropped"]
        ELSE
        LET periodic == IsSome(s.maybe_periodic)
            call_weight == CallWeight(s.call.ref)
            item_weight == weight_saturating_add(item(periodic, named, Some(was_resolved)),
                                                 SignedWeight(s.origin))
            test_weight == weight_saturating_add(
                               weight_saturating_add(st.total_weight, call_weight),
                               item_weight)
        IN  IF OverLimit(s.priority, order, test_weight)
            THEN \* Cannot be scheduled this block - postpone until next.
                 LET st2 == [st1 EXCEPT !.total_weight =
                                     weight_saturating_add(@, item(FALSE, named, None))]
                     st3 == Reinsert(st2, n + 1, Moved(s))
                 IN  [st3 EXCEPT
                        !.steps = Append(@, StepRecord(order, index, s0, "deferred",
                                             spent, item_weight, call_weight, n + 1))]
            ELSE LET ok == DispatchOk(s.call.ref)
                     st2 == [st1 EXCEPT
                               !.total_weight =
                                  weight_saturating_add(
                                     weight_saturating_add(@, item_weight),
                                     actual_call_weight(s.call.ref)),
                               !.events = Append(@, Dispatched(n, index, s.maybe_id, ok)),
                               !.steps = Append(@, StepRecord(order, index, s0, "dispatched",
                                                    spent, item_weight, call_weight,
                                                    IF periodic
                                                    THEN Wake(n, Unwrap(s.maybe_periodic)[1])
                                                    ELSE 0))]
                 IN  IF periodic
                     THEN LET period == Unwrap(s.maybe_periodic)[1]
                              count == Unwrap(s.maybe_periodic)[2]
                              s2 == [s EXCEPT !.maybe_periodic =
                                       IF count > 1 THEN Some(<<period, count - 1>>)
                                       ELSE None,
                                     !.h.runs = @ + 1]
                          IN  Reinsert(st2, Wake(n, period), s2)
                     ELSE [st2 EXCEPT !.hist[s.h.uid] = "finished"]

RECURSIVE ServiceQueue(_, _, _, _)
ServiceQueue(st, n, queued, order) ==
    IF order >= Len(queued) \/ st.panicked THEN st
    ELSE CHOOSE out \in
           {ServiceQueue(next, n, queued, order + 1) :
              next \in {ServiceTask(st, n, order, queued[order + 1].index,
                                    queued[order + 1].s)}} : TRUE

\* on_initialize(n): the slot n is taken, its live tasks are sorted by
\* priority and served in that order.
on_initialize(ag, lk, hs, n) ==
    CHOOSE out \in
      {ServiceQueue([agenda |-> [ag EXCEPT ![n] = <<>>], lookup |-> lk,
                     total_weight |-> BaseWeight, events |-> <<>>, steps |-> <<>>,
                     panicked |-> FALSE, hist |-> hs, unrequested |-> <<>>],
                    n, queued, 0) :
         queued \in {sort_by_key(Enumerate(ag[n], 1))}} : TRUE

(***************************************************************************)
(* The state machine.                                                      *)
(***************************************************************************)
\* A run's configuration (NoPreimagePostponement, MaxAgendas,
\* MaxScheduledPerBlock), the number of blocks it runs for and the values its
\* calls draw their arguments from.
ApiWorkloads ==
    { [delay |-> Some(1), maxAgendas |-> None, cap |-> 2, blocks |-> ApiBlocks,
       ids |-> {None, Some("a")}, priorities |-> {64}, calls |-> {Value("heavy")},
       periodics |-> {None, Some(<<1, 2>>)}, origins |-> {"Root"}, callers |-> {"Root"}],
      [delay |-> Some(1), maxAgendas |-> None, cap |-> 2, blocks |-> ApiBlocks,
       ids |-> {None, Some("a")}, priorities |-> {64}, calls |-> {Hash("hLight")},
       periodics |-> {None}, origins |-> {"Root"}, callers |-> {"Root"}],
      [delay |-> None, maxAgendas |-> Some(1), cap |-> 2, blocks |-> ApiBlocks,
       ids |-> {None, Some("a")}, priorities |-> {64}, calls |-> {Hash("hLight")},
       periodics |-> {None}, origins |-> {"Root"}, callers |-> {"Root"}] }

TickWorkloads ==
    { [delay |-> Some(1), maxAgendas |-> None, cap |-> 3, blocks |-> MaxBlock,
       ids |-> {None}, priorities |-> {10, 63, 64},
       calls |-> {Value("light"), Value("heavy")},
       periodics |-> {None}, origins |-> {"Root"}, callers |-> {"Root"}],
      [delay |-> Some(1), maxAgendas |-> None, cap |-> 3, blocks |-> MaxBlock,
       ids |-> {None, Some("a")}, priorities |-> {64},
       calls |-> {Value("light"), Value("heavy")},
       periodics |-> {None, Some(<<1, 3>>)}, origins |-> {"Root"}, callers |-> {"Root"}],
      [delay |-> Some(1), maxAgendas |-> None, cap |-> 2, blocks |-> MaxBlock,
       ids |-> {None, Some("a")}, priorities |-> {63, 64},
       calls |-> {Hash("hLight"), Value("heavy")},
       periodics |-> {None, Some(<<2, 2>>)}, origins |-> {"Root"}, callers |-> {"Root"}],
      [delay |-> None, maxAgendas |-> None, cap |-> 2, blocks |-> MaxBlock,
       ids |-> {None, Some("a")}, priorities |-> {63, 64},
       calls |-> {Hash("hLight"), Value("heavy")},
       periodics |-> {None}, origins |-> {"Root"}, callers |-> {"Root"}],
      [delay |-> Some(1), maxAgendas |-> None, cap |-> 2, blocks |-> MaxBlock,
       ids |-> {None}, priorities |-> {64}, calls |-> {Value("light"), Value("fail")},
       periodics |-> {None, Some(<<0, 3>>), Some(<<2, 1>>), Some(<<1, 0>>), Some(<<1, 3>>)},
       origins |-> {"Root"}, callers |-> {"Root"}],
      [delay |-> Some(0), maxAgendas |-> None, cap |-> 2, blocks |-> MaxBlock,
       ids |-> {None, Some("a")}, priorities |-> {64},
       calls |-> {Hash("hLight"), Value("light"), Value("fail")},
       periodics |-> {None}, origins |-> {"Root"}, callers |-> {"Root"}] }

\* The record of the last successful call: the operation, the address
\* returned, the events deposited and, for on_initialize, the list it took, the
\* preimages the provider held, the trace of its loop, the weight returned and
\* whether it panicked; and the hashes the call had the provider release.
Log(op, ret, events, taken, held, steps, weight, panic, unrequested) ==
    [op |-> op, ret |-> ret, events |-> events, taken |-> taken, held |-> held,
     steps |-> steps, weight |-> weight, panic |-> panic, unrequested |-> unrequested]

ApiLog(op, r) == Log(op, r.ret, r.events, <<>>, {}, <<>>, 0, FALSE, r.unrequested)

NoErr == [op |-> "", res |-> "Ok", slot |-> 0]

\* The count of outstanding requests after the requests and the releases of
\* a call.
RECURSIVE Count(_, _)
Count(hashes, h) ==
    IF hashes = <<>> THEN 0
    ELSE (IF Head(hashes) = h THEN 1 ELSE 0) + Count(Tail(hashes), h)

Account(counts, requested, unrequested) ==
    [h \in Hashes |-> counts[h] + Count(requested, h) - Count(unrequested, h)]

EmptyStore ==
    [agenda |-> [s \in Slots |-> <<>>], lookup |-> [id \in Names |-> None],
     nextUid |-> 1, hist |-> <<>>, outstanding |-> [h \in Hashes |-> 0]]

Init ==
    /\ now = 0
    /\ cfg \in ApiWorkloads
    /\ agenda = EmptyStore.agenda
    /\ lookup = EmptyStore.lookup
    /\ preimages = {}
    /\ panicked = FALSE
    /\ last = Log("init", None, <<>>, <<>>, {}, <<>>, 0, FALSE, <<>>)
    /\ err = NoErr
    /\ nextUid = 1
    /\ moves = 0
    /\ hist = <<>>
    /\ outstanding = EmptyStore.outstanding

\* The times a call may name: At(x) and After(x).
Times == {At(x) : x \in 0..(cfg.blocks + 1)} \cup {After(x) : x \in 0..1}

\* What a call leaves in last and err: a failed call is recorded in err, with
\* the slot it was to store into when the store refused, and leaves last as it
\* was.
Outcome(op, r, time) ==
    /\ last' = IF r.res = "Ok" THEN ApiLog(op, r) ELSE last
    /\ err' = IF r.res = "Ok" THEN NoErr
              ELSE [op |-> op, res |-> r.res,
                    slot |-> IF r.res = "TooManyAgendas" THEN resolve_time(time).when
                             ELSE 0]

Schedule(when, maybe_periodic, priority, origin, call) ==
    /\ ~panicked /\ err = NoErr
    /\ \E r \in {do_schedule(agenda, lookup, when, maybe_periodic, priority, origin,
                            call, nextUid)} :
           /\ nextUid <= MaxTasks \/ r.res # "Ok"
           /\ \A h \in Hashes :
                 Account(outstanding, r.requested, r.unrequested)[h] <= MaxOutstanding
           /\ outstanding' = Account(outstanding, r.requested, r.unrequested)
           /\ agenda' = r.agenda
           /\ lookup' = r.lookup
           /\ Outcome("schedule", r, when)
           /\ nextUid' = IF r.res = "Ok" THEN nextUid + 1 ELSE nextUid
           /\ hist' = IF r.res = "Ok" THEN Append(hist, "stored") ELSE hist
    /\ UNCHANGED <<now, preimages, cfg, panicked, moves>>

ScheduleNamed(id, when, maybe_periodic, priority, origin, call) ==
    /\ ~panicked /\ err = NoErr
    /\ \E r \in {schedule_named(agenda, lookup, id, when, maybe_periodic, priority,
                               origin, call, nextUid)} :
           /\ nextUid <= MaxTasks \/ r.res # "Ok"
           /\ \A h \in Hashes :
                 Account(outstanding, r.requested, r.unrequested)[h] <= MaxOutstanding
           /\ outstanding' = Account(outstanding, r.requested, r.unrequested)
           /\ agenda' = r.agenda
           /\ lookup' = r.lookup
           /\ Outcome("schedule_named", r, when)
           /\ nextUid' = IF r.res = "Ok" THEN nextUid + 1 ELSE nextUid
           /\ hist' = IF r.res = "Ok" THEN Append(hist, "stored") ELSE hist
    /\ UNCHANGED <<now, preimages, cfg, panicked, moves>>

\* The history after a cancel call: the task it took is cancelled.
AfterCancel(r) ==
    IF r.res = "Ok" /\ IsSome(r.removed)
    THEN [hist EXCEPT ![Unwrap(r.removed).h.uid] = "cancelled"]
    ELSE hist

Cancel(origin, when, index) ==
    /\ ~panicked /\ err = NoErr
    /\ \E r \in {do_cancel(agenda, lookup, origin, when, index)} :
           /\ outstanding' = Account(outstanding, r.requested, r.unrequested)
           /\ agenda' = r.agenda
           /\ lookup' = r.lookup
           /\ Outcome("cancel", r, At(when))
           /\ hist' = AfterCancel(r)
    /\ UNCHANGED <<now, preimages, cfg, panicked, nextUid, moves>>

CancelNamed(origin, id) ==
    /\ ~panicked /\ err = NoErr
    /\ \E r \in {cancel_named(agenda, lookup, origin, id)} :
           /\ outstanding' = Account(outstanding, r.requested, r.unrequested)
           /\ agenda' = r.agenda
           /\ lookup' = r.lookup
           /\ Outcome("cancel_named", r, At(0))
           /\ hist' = AfterCancel(r)
    /\ UNCHANGED <<now, preimages, cfg, panicked, nextUid, moves>>

Reschedule(when, index, new_time) ==
    /\ ~panicked /\ err = NoErr
    /\ \E r \in {do_reschedule(agenda, lookup, when, index, new_time)} :
           /\ moves < MaxMoves \/ r.res # "Ok"
           /\ agenda' = r.agenda
           /\ lookup' = r.lookup
           /\ Outcome("reschedule", r, new_time)
           /\ hist' = hist
           /\ moves' = IF r.res = "Ok" THEN moves + 1 ELSE moves
    /\ UNCHANGED <<now, preimages, cfg, panicked, nextUid, outstanding>>

RescheduleNamed(id, new_time) ==
    /\ ~panicked /\ err = NoErr
    /\ \E r \in {reschedule_named(agenda, lookup, id, new_time)} :
           /\ moves < MaxMoves \/ r.res # "Ok"
           /\ agenda' = r.agenda
           /\ lookup' = r.lookup
           /\ Outcome("reschedule_named", r, new_time)
           /\ hist' = hist
           /\ moves' = IF r.res = "Ok" THEN moves + 1 ELSE moves
    /\ UNCHANGED <<now, preimages, cfg, panicked, nextUid, outstanding>>

\* The caller has seen the error of its call; the next call may follow.
ClearErr ==
    /\ err # NoErr
    /\ err' = NoErr
    /\ UNCHANGED <<now, agenda, lookup, preimages, cfg, panicked, last, nextUid, moves, hist,
                   outstanding>>

\* The next block: frame_system sets the block number, then on_initialize
\* runs.  A panic aborts the block: nothing it wrote is kept.
Tick ==
    /\ ~panicked /\ err = NoErr
    /\ now < cfg.blocks
    /\ \E n \in {now + 1} : \E st \in {on_initialize(agenda, lookup, hist, n)} :
           /\ now' = n
           /\ last' = Log("on_initialize", None, st.events, agenda[n], preimages,
                          st.steps, st.total_weight, st.panicked, st.unrequested)
           /\ panicked' = st.panicked
           /\ agenda' = IF st.panicked THEN agenda ELSE st.agenda
           /\ lookup' = IF st.panicked THEN lookup ELSE st.lookup
           /\ hist' = IF st.panicked THEN hist ELSE st.hist
           /\ outstanding' = IF st.panicked THEN outstanding
                             ELSE Account(outstanding, <<>>, st.unrequested)
    /\ UNCHANGED <<preimages, cfg, err, nextUid, moves>>

\* The PreimageProvider gets or loses the preimage of a hash.
NotePreimage(h) ==
    /\ ~panicked /\ err = NoErr
    /\ h \notin preimages
    /\ preimages' = preimages \cup {h}
    /\ UNCHANGED <<now, agenda, lookup, cfg, panicked, last, err, nextUid, moves, hist,
                   outstanding>>

UnnotePreimage(h) ==
    /\ ~panicked /\ err = NoErr
    /\ h \in preimages
    /\ preimages' = preimages \ {h}
    /\ UNCHANGED <<now, agenda, lookup, cfg, panicked, last, err, nextUid, moves, hist,
                   outstanding>>

\* The hashes the calls of this run refer to.
UsedHashes == {c.ref : c \in {x \in cfg.calls : x.hashed}}

UsedNames == {Unwrap(i) : i \in cfg.ids \ {None}}
\* The origin a cancel call is made with: none (the calls of the Anon and
\* Named traits) or the caller of the extrinsic.
Callers == {None} \cup {Some(o) : o \in cfg.callers}

\* The addresses a call may name: every entry of the Agenda, live or not, and
\* for every slot the index behind its last entry.
Addresses == {a \in Slots \X (0..MaxScheduledPerBlock) : a[2] <= Len(agenda[a[1]])}

Environment ==
    \/ \E h \in UsedHashes : NotePreimage(h)
    \/ \E h \in UsedHashes : UnnotePreimage(h)

Next ==
    \/ \E when \in Times, mp \in cfg.periodics, priority \in cfg.priorities,
          origin \in cfg.origins, call \in cfg.calls :
          Schedule(when, mp, priority, origin, call)
    \/ \E id \in UsedNames, when \in Times,
          mp \in cfg.periodics, priority \in cfg.priorities,
          origin \in cfg.origins, call \in cfg.calls :
          ScheduleNamed(id, when, mp, priority, origin, call)
    \/ \E origin \in Callers, a \in Addresses :
          Cancel(origin, a[1], a[2])
    \/ \E origin \in Callers, id \in UsedNames :
          CancelNamed(origin, id)
    \/ \E a \in Addresses, new_time \in Times :
          Reschedule(a[1], a[2], new_time)
    \/ \E id \in UsedNames, new_time \in Times :
          RescheduleNamed(id, new_time)
    \/ ClearErr
    \/ Tick
    \/ Environment

Spec == Init /\ [][Next]_vars

(***************************************************************************)
(* Runs of the API with callers of different privilege: tasks of Root and  *)
(* of a signed origin, cancelled by Root, by that origin, by another one   *)
(* and through the Anon and Named traits, and a name that is too long.     *)
(***************************************************************************)
AuthWorkloads ==
    { [delay |-> Some(1), maxAgendas |-> None, cap |-> 2, blocks |-> 1,
       ids |-> {None, Some("a"), Some("long")}, priorities |-> {64},
       calls |-> {Hash("hLight")}, periodics |-> {None},
       origins |-> {"Root", "Signed"}, callers |-> {"Root", "Signed", "Other"}] }

InitAuth ==
    /\ now = 0
    /\ cfg \in AuthWorkloads
    /\ agenda = EmptyStore.agenda
    /\ lookup = EmptyStore.lookup
    /\ preimages = {}
    /\ panicked = FALSE
    /\ last = Log("init", None, <<>>, <<>>, {}, <<>>, 0, FALSE, <<>>)
    /\ err = NoErr
    /\ nextUid = 1
    /\ moves = 0
    /\ hist = <<>>
    /\ outstanding = EmptyStore.outstanding

SpecAuth == InitAuth /\ [][Next]_vars

(***************************************************************************)
(* Runs of on_initialize over a loaded Agenda.  The Agenda is the one a    *)
(* sequence of schedule calls made in block 0 leaves: up to                *)
(* MaxScheduledPerBlock tasks due in block 1, some tasks due in a later    *)
(* block, and possibly the first task cancelled again.  No call of the     *)
(* scheduling API follows.                                                 *)
(***************************************************************************)
\* The arguments of one schedule or schedule_named call.
Request(id, when, maybe_periodic, priority, origin, call) ==
    [id |-> id, when |-> when, maybe_periodic |-> maybe_periodic,
     priority |-> priority, origin |-> origin, call |-> call]

\* The calls that schedule a task for block 1.
DueRequests ==
    {Request(id, At(1), mp, priority, origin, call) :
        id \in cfg.ids, mp \in cfg.periodics, priority \in cfg.priorities,
        origin \in cfg.origins, call \in cfg.calls}

\* k calls that schedule a plain task for block slot.
Fillers(slot, k) ==
    [i \in 1..k |-> Request(None, At(slot), None, 64, "Root", Value("light"))]

\* The call of request q on store.
Call(store, q) ==
    IF IsSome(q.id)
    THEN do_schedule_named(store.agenda, store.lookup, Unwrap(q.id), q.when,
                           q.maybe_periodic, q.priority, q.origin, q.call, store.nextUid)
    ELSE do_schedule(store.agenda, store.lookup, q.when, q.maybe_periodic, q.priority,
                     q.origin, q.call, store.nextUid)

\* The store after a successful call.
Stored(store, r) ==
    [agenda |-> r.agenda, lookup |-> r.lookup, nextUid |-> store.nextUid + 1,
     hist |-> Append(store.hist, "stored"),
     outstanding |-> Account(store.outstanding, r.requested, r.unrequested)]

\* The store after the calls of requests, from the i-th on, have been made on
\* store; ok is FALSE when one of them failed.
RECURSIVE Build(_, _, _)
Build(store, requests, i) ==
    IF i > Len(requests) THEN [ok |-> TRUE, store |-> store]
    ELSE CHOOSE out \in
           {IF r.res # "Ok" THEN [ok |-> FALSE, store |-> store]
            ELSE Build(Stored(store, r), requests, i + 1) :
              r \in {Call(store, requests[i])}} : TRUE

\* The store after cancel(1, 0) by Root.
Cancelled(store) ==
    LET r == do_cancel(store.agenda, store.lookup, None, 1, 0)
    IN  [store EXCEPT !.agenda = r.agenda, !.lookup = r.lookup,
                      !.hist[Unwrap(r.removed).h.uid] = "cancelled",
                      !.outstanding = Account(@, r.requested, r.unrequested)]

SeqsUpTo(S, n) == UNION {[1..m -> S] : m \in 0..n}

InitTick ==
    /\ now = 0
    /\ cfg \in TickWorkloads
    /\ preimages \in SUBSET UsedHashes
    /\ panicked = FALSE
    /\ last = Log("init", None, <<>>, <<>>, {}, <<>>, 0, FALSE, <<>>)
    /\ err = NoErr
    /\ moves = 0
    /\ \E due \in SeqsUpTo(DueRequests, MaxScheduledPerBlock),
          slot \in 2..3, k \in 0..MaxScheduledPerBlock, cancel \in BOOLEAN :
          \E b \in {Build(EmptyStore, due \o Fillers(slot, k), 1)} :
          \E store \in {IF b.ok /\ cancel /\ Len(due) >= 2 THEN Cancelled(b.store)
                        ELSE b.store} :
              /\ b.ok
              /\ cancel => Len(due) >= 2
              /\ agenda = store.agenda
              /\ lookup = store.lookup
              /\ nextUid = store.nextUid
              /\ hist = store.hist
              /\ outstanding = store.outstanding

NextTick ==
    \/ Tick
    \/ Environment

SpecTick == InitTick /\ [][NextTick]_vars

(***************************************************************************)
(* Runs of on_initialize, block after block, over a loaded Agenda whose    *)
(* payloads all resolve and in which no slot can fill up: the calls made   *)
(* in block 0 store at most MaxScheduledPerBlock tasks.  No call of the    *)
(* scheduling API follows and the preimages stay.                          *)
(***************************************************************************)
LiveWorkloads ==
    { [delay |-> Some(1), maxAgendas |-> None, cap |-> 3, blocks |-> MaxBlock,
       ids |-> {None}, priorities |-> {10, 63, 64},
       calls |-> {Value("light"), Value("heavy")},
       periodics |-> {None}, origins |-> {"Root"}, callers |-> {"Root"}],
      [delay |-> Some(1), maxAgendas |-> None, cap |-> 3, blocks |-> MaxBlock,
       ids |-> {None, Some("a")}, priorities |-> {64},
       calls |-> {Hash("hLight"), Value("heavy")},
       periodics |-> {None}, origins |-> {"Root"}, callers |-> {"Root"}] }

InitLive ==
    /\ now = 0
    /\ cfg \in LiveWorkloads
    /\ preimages = UsedHashes
    /\ panicked = FALSE
    /\ last = Log("init", None, <<>>, <<>>, {}, <<>>, 0, FALSE, <<>>)
    /\ err = NoErr
    /\ moves = 0
    /\ \E due \in SeqsUpTo(DueRequests, MaxScheduledPerBlock),
          slot \in 2..3, k \in 0..MaxScheduledPerBlock, cancel \in BOOLEAN :
          \E b \in {Build(EmptyStore, due \o Fillers(slot, k), 1)} :
          \E store \in {IF b.ok /\ cancel /\ Len(due) >= 2 THEN Cancelled(b.store)
                        ELSE b.store} :
              /\ b.ok
              /\ cancel => Len(due) >= 2
              /\ Len(due) + k <= MaxScheduledPerBlock
              /\ agenda = store.agenda
              /\ lookup = store.lookup
              /\ nextUid = store.nextUid
              /\ hist = store.hist
              /\ outstanding = store.outstanding

NextLive == Tick

\* The host calls on_initialize for every block.
SpecLive == InitLive /\ [][NextLive]_vars /\ WF_vars(Tick)

(***************************************************************************)
(* Properties.                                                             *)
(***************************************************************************)
\* The addresses of the Agenda that hold an entry, and those that hold a task.
Entries == {a \in Slots \X (0..(MaxScheduledPerBlock - 1)) : a[2] < Len(agenda[a[1]])}
LiveAt == {a \in Entries : IsSome(agenda[a[1]][a[2] + 1])}
TaskAt(a) == Unwrap(agenda[a[1]][a[2] + 1])

\* The tasks the API has stored, by number, and the addresses a task is at.
Uids == 1..Len(hist)
AddressesOf(uid) == {a \in LiveAt : TaskAt(a).h.uid = uid}

\* The last call was on_initialize(now); last holds its trace.
Ticked == last.op = "on_initialize"

\* The indices of the list on_initialize took that hold a task.
LiveIndices(list) == {i \in 0..(Len(list) - 1) : IsSome(list[i + 1])}

\* The task at j comes before the task at i: lower priority value, lower
\* index when the priorities are equal.
SortsBefore(list, j, i) ==
    \/ Unwrap(list[j + 1]).priority < Unwrap(list[i + 1]).priority
    \/ /\ Unwrap(list[j + 1]).priority = Unwrap(list[i + 1]).priority
       /\ j < i

\* The number of tasks of the list that come before the task at i.
Rank(list, i) == Cardinality({j \in LiveIndices(list) : SortsBefore(list, j, i)})

\* The loop found the call of the task of this step.
PayloadResolved(step) == step.outcome \in {"dispatched", "deferred"}

\* The task of this step was dispatched in a block that was built: a panic
\* of on_initialize discards the block and everything done in it.
DispatchedInTick(step) == step.outcome = "dispatched" /\ ~last.panic

\* The call of the task was there for on_initialize to find.
Resolves(s) == ~s.call.hashed \/ s.call.ref \in last.held

\* C1: in every reachable state every live task that has a name has the
\* Lookup entry of that name equal to its own (slot, index) address.
C1_LookupHoldsAddress ==
    \A a \in LiveAt :
        IsSome(TaskAt(a).maybe_id) => lookup[Unwrap(TaskAt(a).maybe_id)] = Some(a)

\* C2: every task the API has stored is in exactly one condition: live at
\* exactly one address, cancelled, removed after its final dispatch, or
\* dropped for want of its preimage when no postponement is configured; no
\* task is at two addresses and no live task comes from nowhere.
C2_EachTaskInOneCondition ==
    /\ \A a \in LiveAt : TaskAt(a).h.uid \in Uids
    /\ \A u \in Uids :
          /\ hist[u] \in {"stored", "cancelled", "finished", "dropped"}
          /\ Cardinality(AddressesOf(u)) = IF hist[u] = "stored" THEN 1 ELSE 0
          /\ hist[u] = "dropped" => cfg.delay = None

\* A task has been dispatched for the last time and removed while another
\* one, moved by a reschedule call, is still live.
C2_Witness ==
    /\ Ticked
    /\ moves = 1
    /\ \E u \in Uids : hist[u] = "finished"
    /\ \E a \in LiveAt : TaskAt(a).h.moved /\ hist[TaskAt(a).h.uid] = "stored"

\* C3: on_initialize runs to completion in every reachable state: it never
\* panics, also not when it re-inserts a task into a slot that is full.
C3_NeverPanics == ~panicked

\* C4: within one on_initialize the live tasks of the slot are processed, and
\* their Dispatched events deposited, in ascending priority value, ties in
\* ascending index: the k-th task processed is the one that k - 1 tasks of
\* the slot come before by (priority, index).
C4_ProcessedInPriorityOrder ==
    Ticked =>
        /\ \A k \in 1..Len(last.steps) :
              /\ last.steps[k].order = k - 1
              /\ last.steps[k].index \in LiveIndices(last.taken)
              /\ last.steps[k].s = Unwrap(last.taken[last.steps[k].index + 1])
              /\ Rank(last.taken, last.steps[k].index) = k - 1
        /\ ~last.panic => Len(last.steps) = Cardinality(LiveIndices(last.taken))
        /\ \A i, j \in 1..Len(last.events) :
              i < j => Rank(last.taken, last.events[i].index)
                         < Rank(last.taken, last.events[j].index)

\* Three tasks were processed, not in index order, two of them of equal
\* priority.
C4_Witness ==
    /\ Ticked
    /\ ~last.panic
    /\ Len(last.steps) = 3
    /\ \E k \in 1..2 : last.steps[k].index > last.steps[k + 1].index
    /\ \E k \in 1..2 : last.steps[k].s.priority = last.steps[k + 1].s.priority

\* The admission test as the claim C5 states it.
AdmittedAsClaimed(step) ==
    \/ step.s.priority = HARD_DEADLINE
    \/ step.order = 0
    \/ step.spent + step.item_weight + step.call_weight <= MaximumWeight

\* C5: a due task whose payload resolved is dispatched in the tick if and only
\* if its priority equals HARD_DEADLINE, or it is at position 0 of the sorted
\* order, or the weight spent so far plus its item and call weight is within
\* MaximumWeight.
C5_AdmissionTest ==
    Ticked =>
        \A k \in 1..Len(last.steps) :
            PayloadResolved(last.steps[k]) =>
                (DispatchedInTick(last.steps[k]) <=> AdmittedAsClaimed(last.steps[k]))

\* C6: the task that sorts first in the slot, when its payload resolves, is
\* dispatched in the tick whatever its cost.
C6_FirstTaskDispatched ==
    (Ticked /\ last.steps # <<>> /\ PayloadResolved(last.steps[1]))
        => DispatchedInTick(last.steps[1])

\* C7: a task of priority HARD_DEADLINE whose payload resolves is dispatched
\* in the tick of its slot, and is never deferred to the next block.
C7_HardDeadlineDispatched ==
    Ticked =>
        /\ \A i \in LiveIndices(last.taken) :
              (/\ Unwrap(last.taken[i + 1]).priority = HARD_DEADLINE
               /\ Resolves(Unwrap(last.taken[i + 1])))
                 => \E k \in 1..Len(last.steps) :
                       last.steps[k].index = i /\ DispatchedInTick(last.steps[k])
        /\ \A k \in 1..Len(last.steps) :
              last.steps[k].s.priority = HARD_DEADLINE
                 => last.steps[k].outcome # "deferred"

\* The step of a successful schedule or reschedule call, which stores a task.
Stores == nextUid' # nextUid \/ moves' # moves

\* C8: the list of a slot never has more than MaxScheduledPerBlock entries; no
\* schedule or reschedule call that succeeds stores into a slot that has that
\* many; the call that fails reports TooManyAgendas only when the slot is
\* full (or the map is) and, as every failed call, leaves Agenda and Lookup as
\* they were.
C8_SlotBound ==
    /\ [](\A s \in Slots : Len(agenda[s]) <= MaxScheduledPerBlock)
    /\ [][/\ Stores => Len(agenda[Unwrap(last'.ret)[1]]) < MaxScheduledPerBlock
          /\ (err = NoErr /\ err' # NoErr) =>
                /\ agenda' = agenda
                /\ lookup' = lookup
                /\ err'.op \in {"schedule", "schedule_named", "reschedule",
                                "reschedule_named"}
                      => (err'.res = "TooManyAgendas"
                            => \/ Len(agenda[err'.slot]) = MaxScheduledPerBlock
                               \/ IsSome(cfg.maxAgendas))]_vars

\* A reschedule call has failed with TooManyAgendas on a full slot.
C8_Witness ==
    /\ err.res = "TooManyAgendas"
    /\ err.op \in {"reschedule", "reschedule_named"}
    /\ cfg.maxAgendas = None
    /\ Len(agenda[err.slot]) = MaxScheduledPerBlock

\* The number of slots that hold a list.
UsedSlots == Cardinality({s \in Slots : agenda[s] # <<>>})

\* C9: with MaxAgendas = Some(m) no more than m slots hold a list, and the
\* schedule call that is refused for a slot that holds none is refused with m
\* slots in use.
C9_AgendaBound ==
    IsSome(cfg.maxAgendas) =>
        /\ UsedSlots <= Unwrap(cfg.maxAgendas)
        /\ (err.res = "TooManyAgendas" /\ agenda[err.slot] = <<>>)
              => UsedSlots = Unwrap(cfg.maxAgendas)

\* A schedule call for a new slot has failed with MaxAgendas slots in use.
C9_Witness ==
    /\ IsSome(cfg.maxAgendas)
    /\ err.res = "TooManyAgendas"
    /\ err.op \in {"schedule", "schedule_named"}
    /\ agenda[err.slot] = <<>>
    /\ UsedSlots = Unwrap(cfg.maxAgendas)

\* The step dispatched a task scheduled with a period p # 0 and a count >= 2.
PeriodicRun(step) ==
    /\ step.outcome = "dispatched"
    /\ IsSome(step.s.h.asked)
    /\ Unwrap(step.s.h.asked)[1] # 0
    /\ Unwrap(step.s.h.asked)[2] >= 2

\* What C10 says of one dispatch of a periodic task in block now: it is the
\* (runs + 1)-th of at most c; if the task was never moved the block is
\* at + runs * p; if it is not the last the task is live in slot now + p; if
\* it is the last nothing of the task remains, in Agenda or in Lookup.
PeriodicAsClaimed(step) ==
    LET h == step.s.h
        p == Unwrap(h.asked)[1]
        c == Unwrap(h.asked)[2]
    IN  /\ h.runs + 1 <= c
        /\ ~h.moved => now = h.at + h.runs * p
        /\ h.runs + 1 < c =>
              \E a \in AddressesOf(h.uid) :
                  a[1] = now + p /\ TaskAt(a).h.runs = h.runs + 1
        /\ h.runs + 1 = c =>
              /\ AddressesOf(h.uid) = {}
              /\ hist[h.uid] = "finished"
              /\ IsSome(step.s.maybe_id) => lookup[Unwrap(step.s.maybe_id)] = None

\* C10: a task scheduled with period p # 0 and count c >= 2 is dispatched c
\* times; after every dispatch but the last it is re-inserted into the slot
\* p after the block of the dispatch; never moved, it is dispatched in the
\* blocks T, T + p, ...; after the last dispatch nothing of it remains.
C10_PeriodicRuns ==
    Ticked =>
        \A k \in 1..Len(last.steps) :
            PeriodicRun(last.steps[k]) => PeriodicAsClaimed(last.steps[k])

(***************************************************************************)
(* What holds of the ticks that complete.  The claims C5, C6, C7 and C10   *)
(* fail where on_initialize panics (C3); these are the same statements for *)
(* an on_initialize that returns, C5 with the test the code makes.         *)
(***************************************************************************)
Completed == Ticked /\ ~last.panic

AdmittedByCode(step) ==
    \/ step.s.priority <= HARD_DEADLINE
    \/ step.order = 0
    \/ step.spent + step.item_weight + step.call_weight <= MaximumWeight

CompletedAdmission ==
    Completed =>
        \A k \in 1..Len(last.steps) :
            PayloadResolved(last.steps[k]) =>
                (DispatchedInTick(last.steps[k]) <=> AdmittedByCode(last.steps[k]))

CompletedFirstTask == Completed => C6_FirstTaskDispatched

CompletedHardDeadline == Completed => C7_HardDeadlineDispatched

CompletedPeriodic == Completed => C10_PeriodicRuns

(***************************************************************************)
(* Periodic descriptors.                                                   *)
(***************************************************************************)
\* The periodic argument asks for one run only: none, a count of at most one
\* or a period of zero.
AsksOneRun(asked) ==
    \/ asked = None
    \/ Unwrap(asked)[2] <= 1
    \/ Unwrap(asked)[1] = 0

\* The descriptor a task scheduled with the argument asked holds after runs
\* dispatches: the period and the count less the first run and the runs done,
\* as long as that is at least one.
DescriptorAfter(asked, runs) ==
    IF AsksOneRun(asked) \/ Unwrap(asked)[2] - 1 - runs < 1 THEN None
    ELSE Some(<<Unwrap(asked)[1], Unwrap(asked)[2] - 1 - runs>>)

\* C11: schedule and schedule_named store no periodic descriptor when the
\* count is at most one or the period is zero, and (period, count - 1)
\* otherwise; every stored descriptor has a period other than zero and a
\* remaining count of at least one, also after on_initialize has lowered it;
\* a task stored without a descriptor is gone once a block that was built has
\* dispatched it.
C11_PeriodicNormalised ==
    /\ \A a \in LiveAt :
          LET s == TaskAt(a)
          IN  /\ IsSome(s.maybe_periodic) =>
                    /\ Unwrap(s.maybe_periodic)[1] # 0
                    /\ Unwrap(s.maybe_periodic)[2] >= 1
              /\ s.maybe_periodic = DescriptorAfter(s.h.asked, s.h.runs)
              /\ AsksOneRun(s.h.asked) => s.h.runs = 0
    /\ Ticked /\ ~last.panic =>
          \A i \in 1..Len(last.steps) :
             LET step == last.steps[i]
             IN  step.outcome = "dispatched" /\ step.s.maybe_periodic = None =>
                    /\ hist[step.s.h.uid] = "finished"
                    /\ AddressesOf(step.s.h.uid) = {}

\* A block that was built dispatched a task scheduled with a count of at most
\* one or a period of zero, and a task with a lowered descriptor is stored.
C11_Witness ==
    /\ Ticked /\ ~last.panic
    /\ \E i \in 1..Len(last.steps) :
          /\ last.steps[i].outcome = "dispatched"
          /\ IsSome(last.steps[i].s.h.asked)
          /\ AsksOneRun(last.steps[i].s.h.asked)
    /\ \E a \in LiveAt :
          /\ TaskAt(a).h.runs >= 1
          /\ IsSome(TaskAt(a).maybe_periodic)

(***************************************************************************)
(* Tasks on_initialize does not dispatch.                                  *)
(***************************************************************************)
\* The payload of the task of this step could not be resolved in the block:
\* it is a hash and the provider did not hold its preimage.
Unresolvable(step) == step.s.call.hashed /\ step.s.call.ref \notin last.held

\* The stored task t is the task s as the claims compare them: name,
\* priority, payload, periodic descriptor and origin.
SameTask(t, s) ==
    /\ t.h.uid = s.h.uid
    /\ t.maybe_id = s.maybe_id
    /\ t.priority = s.priority
    /\ t.call = s.call
    /\ t.maybe_periodic = s.maybe_periodic
    /\ t.origin = s.origin

\* The task of the step is stored unchanged in the slot, once, and Lookup
\* holds its address when it has a name.
MovedTo(step, slot) ==
    \E a \in LiveAt :
       /\ a[1] = slot
       /\ AddressesOf(step.s.h.uid) = {a}
       /\ SameTask(TaskAt(a), step.s)
       /\ IsSome(step.s.maybe_id) => lookup[Unwrap(step.s.maybe_id)] = Some(a)

\* No notification of the block is about the task of the step.
NotNotified(step) ==
    \A k \in 1..Len(last.events) :
       ~(last.events[k].when = now /\ last.events[k].index = step.index)

\* C12: a task whose payload cannot be resolved in block N is, with a
\* postponement delay D, stored unchanged in slot N + D with Lookup holding its
\* new address, and without a delay removed from the Agenda with its name
\* absent from Lookup; in both cases it is not dispatched in block N.
C12_UnresolvedPostponedOrDropped ==
    Ticked =>
       \A i \in 1..Len(last.steps) :
          LET step == last.steps[i]
          IN  Unresolvable(step) =>
                /\ step.outcome # "dispatched"
                /\ \A k \in 1..Len(last.events) :
                      ~(last.events[k].ev = "Dispatched" /\ last.events[k].index = step.index)
                /\ IF IsSome(cfg.delay)
                   THEN MovedTo(step, now + Unwrap(cfg.delay))
                   ELSE /\ AddressesOf(step.s.h.uid) = {}
                        /\ IsSome(step.s.maybe_id) =>
                              lookup[Unwrap(step.s.maybe_id)] = None

\* The statement of C12 for the blocks that were built.
CompletedUnresolved == Completed => C12_UnresolvedPostponedOrDropped

\* A built block postponed a named task and another built block dropped one.
PostponedNamed ==
    /\ Completed /\ IsSome(cfg.delay)
    /\ \E i \in 1..Len(last.steps) :
          Unresolvable(last.steps[i]) /\ IsSome(last.steps[i].s.maybe_id)

DroppedNamed ==
    /\ Completed /\ ~IsSome(cfg.delay)
    /\ \E i \in 1..Len(last.steps) :
          Unresolvable(last.steps[i]) /\ IsSome(last.steps[i].s.maybe_id)

\* The CallLookupFailed notifications of the block for the task of the step.
LookupFailures(step) ==
    {k \in 1..Len(last.events) :
        /\ last.events[k].ev = "CallLookupFailed"
        /\ last.events[k].when = now
        /\ last.events[k].index = step.index
        /\ last.events[k].id = step.s.maybe_id}

\* C13: for every due task whose payload cannot be resolved, on_initialize
\* emits exactly one CallLookupFailed notification with the task's address and
\* name, when the task is postponed and when it is dropped.
C13_LookupFailureNotified ==
    Ticked =>
       \A i \in 1..Len(last.steps) :
          Unresolvable(last.steps[i]) => Cardinality(LookupFailures(last.steps[i])) = 1

\* C14: a task the admission test rejects in block N is stored unchanged
\* (name, priority, payload, periodic descriptor, origin) in slot N + 1, with
\* Lookup holding its new address when it has a name, and the block emits no
\* notification for it.
C14_DeferredUnchanged ==
    Ticked =>
       \A i \in 1..Len(last.steps) :
          LET step == last.steps[i]
          IN  step.outcome = "deferred" =>
                 /\ MovedTo(step, now + 1)
                 /\ NotNotified(step)

\* The statement of C14 for the blocks that were built.
CompletedDeferred == Completed => C14_DeferredUnchanged

\* The statement of C14 for the blocks that were built and the deferred tasks
\* whose payload was stored as a value.
CompletedDeferredValue ==
    Completed =>
       \A i \in 1..Len(last.steps) :
          LET step == last.steps[i]
          IN  step.outcome = "deferred" /\ ~step.s.call.hashed =>
                 /\ MovedTo(step, now + 1)
                 /\ NotNotified(step)

(***************************************************************************)
(* Calls of the API that fail.                                             *)
(***************************************************************************)
\* The errors of the scheduling API.
Errors ==
    {"TooManyAgendas", "NotFound", "FailedToSchedule", "TargetBlockNumberInPast",
     "RescheduleNoChange", "BadOrigin", "ScheduleIdTooLong", "CallTooLong"}

\* This step is a call of the API that returns an error.
FailedCall == err = NoErr /\ err' # NoErr

\* C15: a schedule, schedule_named, cancel, cancel_named, reschedule or
\* reschedule_named call that returns an error leaves Agenda and Lookup as
\* they were and emits no notification.
C15_FailedCallChangesNothing ==
    [][FailedCall =>
         /\ err'.res \in Errors
         /\ agenda' = agenda
         /\ lookup' = lookup
         /\ last' = last
         /\ hist' = hist]_vars

\* cancel_named was refused for its origin while Lookup holds the name and a
\* task is stored.
C15_Witness ==
    /\ err.op = "cancel_named" /\ err.res = "BadOrigin"
    /\ IsSome(lookup["a"])
    /\ LiveAt # {}

\* A call can be made in this state.
Callable == ~panicked /\ err = NoErr

\* The result r of a call is the error, with Agenda and Lookup as they are
\* and no notification.
Refused(r, error) ==
    /\ r.res = error
    /\ r.agenda = agenda
    /\ r.lookup = lookup
    /\ r.events = <<>>

\* The slots that hold a task of the name.
SlotsOfName(id) == {a[1] : a \in {b \in LiveAt : TaskAt(b).maybe_id = Some(id)}}

\* C16: reschedule(address, t) and reschedule_named(name, t) whose resolved
\* new slot is the slot the task is in return RescheduleNoChange, leave Agenda
\* and Lookup untouched and emit neither Canceled nor Scheduled.
C16_NoOpRescheduleRefused ==
    Callable =>
       \A t \in Times :
          resolve_time(t).ok =>
             /\ \A a \in LiveAt :
                   a[1] = resolve_time(t).when =>
                      Refused(do_reschedule(agenda, lookup, a[1], a[2], t),
                              "RescheduleNoChange")
             /\ \A id \in UsedNames :
                   IdFits(id) /\ resolve_time(t).when \in SlotsOfName(id) =>
                      Refused(reschedule_named(agenda, lookup, id, t),
                              "RescheduleNoChange")

\* The statement of C16 for reschedule, and for reschedule_named with the
\* slot Lookup holds for the name in place of the slot the task is in.
NoOpRescheduleAtLookup ==
    Callable =>
       \A t \in Times :
          resolve_time(t).ok =>
             /\ \A a \in LiveAt :
                   a[1] = resolve_time(t).when =>
                      Refused(do_reschedule(agenda, lookup, a[1], a[2], t),
                              "RescheduleNoChange")
             /\ \A id \in UsedNames :
                   /\ IdFits(id)
                   /\ IsSome(lookup[id])
                   /\ resolve_time(t).when = Unwrap(lookup[id])[1]
                   => Refused(reschedule_named(agenda, lookup, id, t),
                              "RescheduleNoChange")

\* The entry of the Agenda ag at the address ret is a task of the name with
\* the number uid.
StoredAt(ag, ret, id, uid) ==
    /\ IsSome(ret)
    /\ Unwrap(ret)[2] < Len(ag[Unwrap(ret)[1]])
    /\ IsSome(ag[Unwrap(ret)[1]][Unwrap(ret)[2] + 1])
    /\ Unwrap(ag[Unwrap(ret)[1]][Unwrap(ret)[2] + 1]).maybe_id = Some(id)
    /\ Unwrap(ag[Unwrap(ret)[1]][Unwrap(ret)[2] + 1]).h.uid = uid

\* C17: schedule_named with a name Lookup holds fails with FailedToSchedule
\* and overwrites nothing: the task, its address and its Lookup entry stay and
\* no second task of the name is stored; when schedule_named succeeds,
\* Lookup holds for the name the address of the task it stored.
C17_NameNotOverwritten ==
    Callable =>
       \A id \in UsedNames, when \in Times, mp \in cfg.periodics,
          priority \in cfg.priorities, origin \in cfg.origins, call \in cfg.calls :
          LET r == schedule_named(agenda, lookup, id, when, mp, priority, origin,
                                  call, nextUid)
          IN  IdFits(id) =>
                 /\ IsSome(lookup[id]) => Refused(r, "FailedToSchedule")
                 /\ r.res = "Ok" =>
                       /\ r.lookup[id] = r.ret
                       /\ StoredAt(r.agenda, r.ret, id, nextUid)
                       /\ \A other \in Names \ {id} : r.lookup[other] = lookup[other]

\* schedule_named was refused for a name whose task is stored at the address
\* Lookup holds, and before that a schedule_named call stored that task.
C17_Witness ==
    /\ err.op = "schedule_named" /\ err.res = "FailedToSchedule"
    /\ last.op = "schedule_named"
    /\ \E id \in UsedNames :
          /\ lookup[id] = last.ret
          /\ StoredAt(agenda, lookup[id], id, nextUid - 1)

(***************************************************************************)
(* The slot a call stores into.                                            *)
(***************************************************************************)
\* The times the calls are tried with: those of the run and a delay that
\* saturates.
TimesTried == Times \cup {After(BlockNumberMax)}

\* The slot the time names: x for At(x), now + d + 1 for After(d), at most
\* the greatest block number.
SlotNamed(t) ==
    IF ~t.after THEN t.n
    ELSE IF now + t.n + 1 > BlockNumberMax THEN BlockNumberMax
    ELSE now + t.n + 1

\* The result r of a call with the time t: the call is refused with
\* TargetBlockNumberInPast when the slot is not after now (first stands for
\* the checks the call makes before it resolves the time), and a task it
\* stores is in the slot the time names, after now.
InFuture(r, t, first) ==
    /\ SlotNamed(t) <= now /\ first => Refused(r, "TargetBlockNumberInPast")
    /\ SlotNamed(t) <= now => r.res # "Ok"
    /\ r.res = "Ok" =>
          /\ Unwrap(r.ret)[1] = SlotNamed(t)
          /\ Unwrap(r.ret)[1] > now
          /\ Unwrap(r.ret)[2] < Len(r.agenda[Unwrap(r.ret)[1]])
          /\ IsSome(r.agenda[Unwrap(r.ret)[1]][Unwrap(r.ret)[2] + 1])

\* C18: At(x) with x not after now is refused with TargetBlockNumberInPast,
\* After(d) names the slot now + d + 1 (saturating) and is refused when that
\* is not after now; every task a successful schedule, schedule_named,
\* reschedule or reschedule_named call stores is in a slot after now.
C18_StoredInFuture ==
    /\ Callable =>
          \A t \in TimesTried :
             /\ \A mp \in cfg.periodics, priority \in cfg.priorities,
                   origin \in cfg.origins, call \in cfg.calls :
                   /\ InFuture(do_schedule(agenda, lookup, t, mp, priority, origin,
                                           call, nextUid), t, TRUE)
                   /\ \A id \in UsedNames :
                         InFuture(schedule_named(agenda, lookup, id, t, mp, priority,
                                                 origin, call, nextUid),
                                  t, IdFits(id) /\ ~IsSome(lookup[id]))
             /\ \A a \in LiveAt :
                   InFuture(do_reschedule(agenda, lookup, a[1], a[2], t), t, TRUE)
             /\ \A id \in UsedNames :
                   InFuture(reschedule_named(agenda, lookup, id, t), t, IdFits(id))
    /\ last.op \in {"schedule", "schedule_named", "reschedule", "reschedule_named"} =>
          Unwrap(last.ret)[1] > now

\* In a block after the first, a task was stored and a reschedule call to
\* the current block was then refused.
C18_Witness ==
    /\ now >= 1
    /\ last.op \in {"schedule", "schedule_named"}
    /\ Unwrap(last.ret)[1] > now
    /\ err.op = "reschedule" /\ err.res = "TargetBlockNumberInPast"

(***************************************************************************)
(* Cancellation.                                                           *)
(***************************************************************************)
\* The caller may not cancel the task s: there is an authorization context
\* and the comparison of its privilege with the task's origin yields Less or
\* nothing.
Denied(origin, s) ==
    /\ IsSome(origin)
    /\ cmp_privilege(Unwrap(origin), s.origin) \notin {Some("Equal"), Some("Greater")}

\* The result r of a cancel call by origin on the task at the address a: the
\* call is refused with BadOrigin and changes and releases nothing, or it
\* takes the task out of the Agenda and reports Canceled.
CancelAsAllowed(r, origin, a) ==
    IF Denied(origin, TaskAt(a))
    THEN /\ Refused(r, "BadOrigin")
         /\ r.unrequested = <<>>
    ELSE /\ r.res = "Ok"
         /\ r.agenda[a[1]][a[2] + 1] = None
         /\ r.events = <<Canceled(a[1], a[2])>>

\* The names whose Lookup entry is the address of a task.
NamesOfTasks == {id \in UsedNames : IsSome(lookup[id]) /\ Unwrap(lookup[id]) \in LiveAt}

\* C19: cancel and cancel_named made with an authorization context whose
\* privilege compares Less or not at all with the task's origin fail with
\* BadOrigin, and the task, its Lookup entry and its payload reference stay;
\* with Equal or Greater, or without a context, the cancellation proceeds.
C19_CancelNeedsPrivilege ==
    Callable =>
       \A origin \in Callers :
          /\ \A a \in LiveAt :
                CancelAsAllowed(do_cancel(agenda, lookup, origin, a[1], a[2]), origin, a)
          /\ \A id \in NamesOfTasks :
                /\ CancelAsAllowed(cancel_named(agenda, lookup, origin, id), origin,
                                   Unwrap(lookup[id]))
                /\ ~Denied(origin, TaskAt(Unwrap(lookup[id]))) =>
                      cancel_named(agenda, lookup, origin, id).lookup[id] = None

\* cancel was refused for its origin while a task of a signed origin and a
\* task of Root are stored.
C19_Witness ==
    /\ err.op = "cancel" /\ err.res = "BadOrigin"
    /\ \E a \in LiveAt : TaskAt(a).origin = "Signed"
    /\ \E a \in LiveAt : TaskAt(a).origin = "Root"

\* The result r of a successful cancel call on the task at the address a
\* has the provider release the hash of the task's payload, once.
ReleasedOnce(r, a) ==
    r.res = "Ok" /\ TaskAt(a).call.hashed => r.unrequested = <<TaskAt(a).call.ref>>

\* C20: every successful cancellation of a live task whose payload is a
\* hash, by cancel or cancel_named, with or without an authorization
\* context, releases that hash exactly once.
C20_CancelReleasesHash ==
    Callable =>
       \A origin \in Callers :
          /\ \A a \in LiveAt :
                ReleasedOnce(do_cancel(agenda, lookup, origin, a[1], a[2]), a)
          /\ \A id \in NamesOfTasks :
                ReleasedOnce(cancel_named(agenda, lookup, origin, id), Unwrap(lookup[id]))

\* The statement of C20 for cancel, and for cancel_named with an
\* authorization context.
ReleasedWithContext ==
    Callable =>
       \A origin \in Callers :
          /\ \A a \in LiveAt :
                ReleasedOnce(do_cancel(agenda, lookup, origin, a[1], a[2]), a)
          /\ \A id \in NamesOfTasks :
                IsSome(origin) =>
                   ReleasedOnce(cancel_named(agenda, lookup, origin, id),
                                Unwrap(lookup[id]))

(***************************************************************************)
(* Addresses.                                                              *)
(***************************************************************************)
\* This step is a successful call of the scheduling API.
ApiCall ==
    /\ last' # last
    /\ last'.op \in {"schedule", "schedule_named", "cancel", "cancel_named",
                     "reschedule", "reschedule_named"}

\* The addresses whose entry this step changes.
Changed == {a \in Entries : agenda'[a[1]][a[2] + 1] # agenda[a[1]][a[2] + 1]}

\* The addresses the call of this step reports as cancelled.
Targeted ==
    {<<last'.events[k].when, last'.events[k].index>> :
        k \in {j \in 1..Len(last'.events) : last'.events[j].ev = "Canceled"}}

\* C21: no schedule, cancel or reschedule call changes the index or the
\* contents of a stored task other than the one it targets: cancel and
\* reschedule put a tombstone in place of the targeted entry, the length of
\* its list unchanged, and insertions only append.
C21_AddressesStable ==
    [][ApiCall =>
         /\ \A s \in Slots :
               /\ Len(agenda'[s]) >= Len(agenda[s])
               /\ Len(agenda'[s]) <= Len(agenda[s]) + 1
         /\ \A a \in Changed : agenda'[a[1]][a[2] + 1] = None
         /\ Changed \subseteq Targeted
         /\ last'.op \in {"cancel", "cancel_named"} =>
               \A s \in Slots : Len(agenda'[s]) = Len(agenda[s])
         /\ last'.op \in {"schedule", "schedule_named"} => Changed = {}]_vars

\* A cancel call left a tombstone in front of a stored task.
C21_Witness ==
    /\ last.op = "cancel"
    /\ \E a \in LiveAt : a[2] >= 1 /\ agenda[a[1]][a[2]] = None

(***************************************************************************)
(* Reschedule.                                                             *)
(***************************************************************************)
\* The result r of a reschedule call on the address a with the time t, when
\* it succeeds: a holds a task before the call and a tombstone after it, the
\* same task is stored at the end of the slot the time names, that address is
\* returned, and the call emits Canceled for a, then Scheduled for the new
\* address.
Rescheduled(r, a, t) ==
    r.res = "Ok" =>
       /\ a \in LiveAt
       /\ r.agenda[a[1]][a[2] + 1] = None
       /\ Len(r.agenda[a[1]]) = Len(agenda[a[1]])
       /\ r.ret = Some(<<SlotNamed(t), Len(agenda[SlotNamed(t)])>>)
       /\ Len(r.agenda[SlotNamed(t)]) = Len(agenda[SlotNamed(t)]) + 1
       /\ IsSome(r.agenda[SlotNamed(t)][Len(agenda[SlotNamed(t)]) + 1])
       /\ SameTask(Unwrap(r.agenda[SlotNamed(t)][Len(agenda[SlotNamed(t)]) + 1]),
                   TaskAt(a))
       /\ r.events = <<Canceled(a[1], a[2]),
                       Scheduled(SlotNamed(t), Len(agenda[SlotNamed(t)]))>>

\* C22: a successful reschedule or reschedule_named leaves a tombstone at
\* the old address, stores the same task at (t', k), t' the resolved slot and
\* k the length of that slot before the call, returns (t', k) and emits one
\* Canceled(old address), then one Scheduled(t', k); after reschedule_named
\* Lookup holds (t', k) for the name.
C22_RescheduleMoves ==
    Callable =>
       \A t \in Times :
          /\ \A a \in Addresses :
                Rescheduled(do_reschedule(agenda, lookup, a[1], a[2], t), a, t)
          /\ \A id \in UsedNames :
                reschedule_named(agenda, lookup, id, t).res = "Ok" =>
                   /\ Rescheduled(reschedule_named(agenda, lookup, id, t),
                                  Unwrap(lookup[id]), t)
                   /\ TaskAt(Unwrap(lookup[id])).maybe_id = Some(id)
                   /\ reschedule_named(agenda, lookup, id, t).lookup[id]
                         = reschedule_named(agenda, lookup, id, t).ret

\* A reschedule_named call moved a task behind another entry: Lookup holds
\* the address returned and the task of the name is there.
C22_Witness ==
    /\ last.op = "reschedule_named"
    /\ Unwrap(last.ret)[2] >= 1
    /\ Len(last.events) = 2
    /\ \E id \in UsedNames :
          /\ lookup[id] = last.ret
          /\ Unwrap(lookup[id]) \in LiveAt
          /\ TaskAt(Unwrap(lookup[id])).maybe_id = Some(id)

\* C23: when reschedule(address, t) succeeds on a task that has a name,
\* the same call sets Lookup of the name to the task's new address.
C23_RescheduleUpdatesLookup ==
    Callable =>
       \A t \in Times :
          \A a \in LiveAt :
             LET r == do_reschedule(agenda, lookup, a[1], a[2], t)
             IN  r.res = "Ok" /\ IsSome(TaskAt(a).maybe_id) =>
                    r.lookup[Unwrap(TaskAt(a).maybe_id)] = r.ret

(***************************************************************************)
(* Requests of payloads.                                                   *)
(***************************************************************************)
\* The stored tasks whose payload is the hash h.
Referring(h) == {a \in LiveAt : TaskAt(a).call = Hash(h)}

\* C24: in every reachable state, for each hash the number of outstanding
\* requests the scheduler has made (requests less releases) is the number of
\* stored tasks whose payload is that hash.
C24_RequestsMatchTasks ==
    \A h \in Hashes : outstanding[h] = Cardinality(Referring(h))

\* No hash has fewer outstanding requests than tasks that refer to it.
NeverUnderRequested ==
    \A h \in Hashes : outstanding[h] >= Cardinality(Referring(h))

(***************************************************************************)
(* Execution failures.                                                     *)
(***************************************************************************)
\* The call the task of the step holds once its payload is resolved.
Payload(step) ==
    IF step.s.call.hashed THEN PreimageOf(step.s.call.ref) ELSE step.s.call.ref

\* The task of the step was run in the block and the host reported an
\* error.
FailedRun(step) == step.outcome = "dispatched" /\ ~DispatchOk(Payload(step))

\* The Dispatched notifications of the block for the task of the step.
DispatchedEvents(step) ==
    {k \in 1..Len(last.events) :
        /\ last.events[k].ev = "Dispatched"
        /\ last.events[k].when = now
        /\ last.events[k].index = step.index}

\* The descriptor on_initialize stores after a run of a task that holds the
\* descriptor mp.
Lowered(mp) ==
    IF Unwrap(mp)[2] > 1 THEN Some(<<Unwrap(mp)[1], Unwrap(mp)[2] - 1>>) ELSE None

\* What is stored of the task of the step after its run: nothing when it is
\* not periodic; when it is, the task once, in the slot one period on, with
\* its count lowered.
StoredAfterRun(step) ==
    IF step.s.maybe_periodic = None
    THEN /\ AddressesOf(step.s.h.uid) = {}
         /\ hist[step.s.h.uid] = "finished"
    ELSE \E a \in LiveAt :
            /\ AddressesOf(step.s.h.uid) = {a}
            /\ a[1] = now + Unwrap(step.s.maybe_periodic)[1]
            /\ TaskAt(a).maybe_periodic = Lowered(step.s.maybe_periodic)
            /\ TaskAt(a).h.runs = step.s.h.runs + 1
            /\ TaskAt(a).maybe_id = step.s.maybe_id
            /\ TaskAt(a).priority = step.s.priority
            /\ TaskAt(a).origin = step.s.origin

\* C25: a task whose run in block N reports an error is not retried: the
\* block has one Dispatched notification for it, with the error as result; a
\* task that is not periodic is gone afterwards; a periodic task is stored
\* for its next occurrence with its count lowered, as after a successful run.
C25_FailureNotRetried ==
    Ticked =>
       \A i \in 1..Len(last.steps) :
          LET step == last.steps[i]
          IN  FailedRun(step) =>
                 /\ Cardinality(DispatchedEvents(step)) = 1
                 /\ \A k \in DispatchedEvents(step) : ~last.events[k].ok
                 /\ StoredAfterRun(step)

\* The statement of C25 for the blocks that were built.
CompletedFailure == Completed => C25_FailureNotRetried

\* In the blocks that were built a run that reports no error leaves the same
\* behind as one that does.
CompletedSuccess ==
    Completed =>
       \A i \in 1..Len(last.steps) :
          last.steps[i].outcome = "dispatched" /\ ~FailedRun(last.steps[i]) =>
             /\ Cardinality(DispatchedEvents(last.steps[i])) = 1
             /\ \A k \in DispatchedEvents(last.steps[i]) : last.events[k].ok
             /\ StoredAfterRun(last.steps[i])

\* A built block ran a periodic task and a task that is not periodic, and
\* both reported an error.
FailedBoth ==
    /\ Completed
    /\ \E i, j \in 1..Len(last.steps) :
          /\ FailedRun(last.steps[i]) /\ IsSome(last.steps[i].s.maybe_periodic)
          /\ FailedRun(last.steps[j]) /\ last.steps[j].s.maybe_periodic = None

(***************************************************************************)
(* The weight of a block.                                                  *)
(***************************************************************************)
\* The steps of the block that ran a task of a priority lower than
\* HARD_DEADLINE.
SoftRuns ==
    {i \in 1..Len(last.steps) :
        /\ last.steps[i].outcome = "dispatched"
        /\ last.steps[i].s.priority > HARD_DEADLINE}

\* The weight, item cost and call cost, of the steps in S.
RECURSIVE WeightOf(_)
WeightOf(S) ==
    IF S = {} THEN 0
    ELSE LET i == CHOOSE j \in S : TRUE
         IN  last.steps[i].item_weight + last.steps[i].call_weight + WeightOf(S \ {i})

C27_SlotDrained ==
    Ticked /\ ~last.panic => agenda[now] = <<>>

\* The statement of C27 for a postponement delay that is not zero.
DrainedWithDelay ==
    Ticked /\ ~last.panic /\ cfg.delay # Some(0) => agenda[now] = <<>>

(***************************************************************************)
(* Progress.                                                               *)
(***************************************************************************)
\* Every task that was stored has had its last run or was cancelled, and
\* the Agenda holds no task.
AllDone ==
    /\ ~panicked
    /\ LiveAt = {}
    /\ \A uid \in Uids : hist[uid] \in {"finished", "cancelled"}

Fits(step) ==
    /\ PayloadResolved(step)
    /\ step.spent + step.item_weight + step.call_weight <= MaximumWeight

\* C29: in a block no task's resolution failure, deferral or execution
\* failure stops the loop: every task that was due is examined in the block,
\* and a task that comes after a deferred one and fits the budget is
\* dispatched in the block.
C29_LoopGoesOn ==
    Ticked =>
       /\ Len(last.steps) = Cardinality(LiveIndices(last.taken))
       /\ \A i, j \in 1..Len(last.steps) :
             /\ i < j
             /\ last.steps[i].outcome \in {"deferred", "postponed", "dropped"}
                  \/ FailedRun(last.steps[i])
             /\ Fits(last.steps[j])
             => DispatchedInTick(last.steps[j])

\* The statement of C29 for the blocks that were built.
CompletedLoop == Completed => C29_LoopGoesOn

\* A built block deferred a task and dispatched a task that came after it.
DispatchedBehindDeferred ==
    /\ Completed
    /\ \E i, j \in 1..Len(last.steps) :
          /\ i < j
          /\ last.steps[i].outcome = "deferred"
          /\ last.steps[j].outcome = "dispatched"

(***************************************************************************)
(* Release of a resolved hash.                                             *)
(***************************************************************************)
\* The steps of the run st whose task held the hash h as its payload, the
\* preimage being there.
ResolvedSteps(st, h) ==
    {i \in 1..Len(st.steps) : st.steps[i].s.call = Hash(h) /\ h \in preimages}

\* The addresses of the Agenda ag that hold the task with this number.
StoredBy(ag, uid) ==
    {a \in Slots \X (0..MaxScheduledPerBlock) :
        /\ a[2] < Len(ag[a[1]])
        /\ IsSome(ag[a[1]][a[2] + 1])
        /\ Unwrap(ag[a[1]][a[2] + 1]).h.uid = uid}

CostOf(step) ==
    IF step.outcome = "dispatched"
    THEN item(IsSome(step.s.maybe_periodic), IsSome(step.s.maybe_id),
              Some(step.s.call.hashed))
         + SignedWeight(step.s.origin)
         + (IF IsSome(ActualWeight(Payload(step)))
            THEN Unwrap(ActualWeight(Payload(step)))
            ELSE CallWeight(Payload(step)))
    ELSE item(FALSE, IsSome(step.s.maybe_id), None)

RECURSIVE CostOfAll(_)
CostOfAll(steps) ==
    IF steps = <<>> THEN 0 ELSE CostOf(Head(steps)) + CostOfAll(Tail(steps))

\* C31: the weight on_initialize returns is the base weight plus what every
\* task of the block adds, or the greatest weight when that sum passes it.
C31_ReturnedWeight ==
    Completed =>
       last.weight = IF BaseWeight + CostOfAll(last.steps) > WeightMax
                     THEN WeightMax
                     ELSE BaseWeight + CostOfAll(last.steps)

\* A built block ran a call for which the host reported a weight and
\* aborted an item.
C31_Witness ==
    /\ Completed
    /\ \E i \in 1..Len(last.steps) :
          /\ last.steps[i].outcome = "dispatched"
          /\ IsSome(ActualWeight(Payload(last.steps[i])))
    /\ \E i \in 1..Len(last.steps) : last.steps[i].outcome # "dispatched"

\* A built block returned the greatest weight: the sum passed it.
SaturatedWeight ==
    /\ Completed
    /\ BaseWeight + CostOfAll(last.steps) > WeightMax

(***************************************************************************)
(* The Dispatched notifications of a block.                                *)
(***************************************************************************)
\* The steps of the run in which the task at index i of the list taken was
\* admitted and run.
AdmittedAt(i) ==
    {k \in 1..Len(last.steps) :
        /\ last.steps[k].index = i
        /\ last.steps[k].s.h.uid = Unwrap(last.taken[i + 1]).h.uid
        /\ last.steps[k].outcome = "dispatched"}

\* The notifications of the run that are Dispatched with the task (now, i).
DispatchedAt(i) ==
    {k \in 1..Len(last.events) :
        /\ last.events[k].ev = "Dispatched"
        /\ last.events[k].when = now
        /\ last.events[k].index = i}

\* C32: on_initialize(N) deposits one Dispatched notification for every
\* task it admits, with the task (N, i), i the index the task had in the list
\* of slot N (cancelled entries counted), the name of the task and the
\* result of the run; it deposits none for the other tasks and nothing else.
C32_OneDispatchedPerAdmitted ==
    Ticked =>
       /\ \A i \in LiveIndices(last.taken) :
             IF AdmittedAt(i) # {}
             THEN /\ Cardinality(DispatchedAt(i)) = 1
                  /\ \A k \in DispatchedAt(i) :
                        /\ last.events[k].id = Unwrap(last.taken[i + 1]).maybe_id
                        /\ \A j \in AdmittedAt(i) :
                              last.events[k].ok = DispatchOk(Payload(last.steps[j]))
             ELSE DispatchedAt(i) = {}
       /\ \A k \in 1..Len(last.events) :
             \E i \in LiveIndices(last.taken) : k \in DispatchedAt(i)

\* A built block took a list with a cancelled entry, admitted a named task
\* that stood behind it and did not admit another task.
C32_Witness ==
    /\ Completed
    /\ \E i \in LiveIndices(last.taken) :
          /\ last.taken[1] = None
          /\ AdmittedAt(i) # {}
          /\ IsSome(Unwrap(last.taken[i + 1]).maybe_id)
    /\ \E k \in 1..Len(last.steps) : last.steps[k].outcome # "dispatched"

(***************************************************************************)
(* The address a schedule call returns.                                    *)
(***************************************************************************)
\* The result r of a schedule call with these arguments, when it succeeds:
\* the address returned is the slot the time names and the length that slot
\* had, the task of the call is stored there behind the entries the slot had
\* and nothing else is changed, the call emits one Scheduled for that
\* address, and a cancel of that address then removes that task and nothing
\* else.
ScheduledAs(r, id, when, priority, origin, call) ==
    r.res = "Ok" =>
       \A slot \in {SlotNamed(when)} : \A k \in {Len(agenda[slot])} :
          /\ r.ret = Some(<<slot, k>>)
          /\ r.events = <<Scheduled(slot, k)>>
          /\ Len(r.agenda[slot]) = k + 1
          /\ IsSome(r.agenda[slot][k + 1])
          /\ r.agenda = [agenda EXCEPT ![slot] = Append(@, r.agenda[slot][k + 1])]
          /\ \A s \in {Unwrap(r.agenda[slot][k + 1])} :
                /\ s.maybe_id = id /\ s.priority = priority
                /\ s.origin = origin /\ s.call = call
                /\ s.h.uid = nextUid
          /\ \A c \in {do_cancel(r.agenda, r.lookup, None, slot, k)} :
                /\ c.res = "Ok"
                /\ c.removed = r.agenda[slot][k + 1]
                /\ c.events = <<Canceled(slot, k)>>
                /\ c.agenda = [agenda EXCEPT ![slot] = Append(@, None)]
                /\ c.lookup = lookup

\* C33: a successful schedule or schedule_named returns (when, k), k the
\* length of the slot when before the call, stores the new task at that
\* address, emits one Scheduled(when, k), and a cancel of (when, k) removes
\* that task and no other.
C33_ScheduleReturnsAddress ==
    Callable =>
       \A when \in Times, mp \in cfg.periodics, priority \in cfg.priorities,
          origin \in cfg.origins, call \in cfg.calls :
          /\ ScheduledAs(do_schedule(agenda, lookup, when, mp, priority, origin, call,
                                     nextUid),
                         None, when, priority, origin, call)
          /\ \A id \in UsedNames :
                ScheduledAs(schedule_named(agenda, lookup, id, when, mp, priority, origin,
                                           call, nextUid),
                            Some(id), when, priority, origin, call)

\* A schedule call stored a task behind another entry of its slot, and the
\* task is at the address the call returned.
C33_Witness ==
    /\ last.op \in {"schedule", "schedule_named"}
    /\ Unwrap(last.ret)[2] >= 1
    /\ last.events = <<Scheduled(Unwrap(last.ret)[1], Unwrap(last.ret)[2])>>
    /\ Unwrap(last.ret) \in LiveAt
    /\ TaskAt(Unwrap(last.ret)).h.uid = nextUid - 1

(***************************************************************************)
(* The name of a task that is gone.                                        *)
(***************************************************************************)
\* The tasks that had their last run or were cancelled in this step, as they
\* were stored before the step.
Finalized ==
    {s \in {TaskAt(a) : a \in LiveAt} :
        /\ hist[s.h.uid] = "stored"
        /\ hist'[s.h.uid] \in {"finished", "cancelled"}}

\* C34: when a named task has had its last run or has been cancelled, Lookup
\* does not hold its name, and a schedule_named call with that name is not
\* refused for the name.
C34_NameFreed ==
    [][\A s \in Finalized :
          IsSome(s.maybe_id) =>
             /\ lookup'[Unwrap(s.maybe_id)] = None
             /\ \A when \in Times, call \in cfg.calls :
                   do_schedule_named(agenda', lookup', Unwrap(s.maybe_id), when, None, 64,
                                     "Root", call, nextUid').res # "FailedToSchedule"]_vars

\* The live tasks that carry the name.
Bearing(id) == {a \in LiveAt : TaskAt(a).maybe_id = Some(id)}

\* The statement of C34 for the steps from a state in which no two live
\* tasks carry the same name.
NameFreedOfOnlyBearer ==
    [][\A s \in Finalized :
          IsSome(s.maybe_id) /\ Cardinality(Bearing(Unwrap(s.maybe_id))) = 1 =>
             /\ lookup'[Unwrap(s.maybe_id)] = None
             /\ \A when \in Times, call \in cfg.calls :
                   do_schedule_named(agenda', lookup', Unwrap(s.maybe_id), when, None, 64,
                                     "Root", call, nextUid').res # "FailedToSchedule"]_vars

\* C35: no two live tasks carry the same name.
C35_NamesUnique == \A id \in Names : Cardinality(Bearing(id)) <= 1

\* Lookup holds the address of every live task that carries a name.
NamedTasksInLookup ==
    \A a \in LiveAt :
       IsSome(TaskAt(a).maybe_id) => lookup[Unwrap(TaskAt(a).maybe_id)] = Some(a)

\* Names are unique as long as Lookup holds the address of every live named
\* task: in every step from such a state no name gets a second bearer.
NamesUniqueWhileInLookup ==
    [][NamedTasksInLookup /\ C35_NamesUnique => C35_NamesUnique']_vars

(***************************************************************************)
(* Tombstones and the capacity of a slot.                                  *)
(***************************************************************************)
\* The slots after now that hold MaxScheduledPerBlock entries, tasks and
\* tombstones together.
FullSlots == {s \in Slots : s > now /\ Len(agenda[s]) = MaxScheduledPerBlock}

\* C36: the list of a slot does not get shorter in a step other than the
\* on_initialize of that slot, and a schedule call into a slot that holds
\* MaxScheduledPerBlock entries, tombstones counted, fails with
\* TooManyAgendas.
C36_TombstonesCount ==
    /\ [][\A s \in Slots :
            now' = now \/ s # now' => Len(agenda'[s]) >= Len(agenda[s])]_vars
    /\ [](Callable =>
            \A when \in Times, mp \in cfg.periodics, priority \in cfg.priorities,
               origin \in cfg.origins, call \in cfg.calls :
               SlotNamed(when) \in FullSlots /\ EncodeFits(call) =>
                  /\ do_schedule(agenda, lookup, when, mp, priority, origin, call,
                                 nextUid).res = "TooManyAgendas"
                  /\ \A id \in UsedNames :
                        IdFits(id) /\ lookup[id] = None =>
                           schedule_named(agenda, lookup, id, when, mp, priority, origin,
                                          call, nextUid).res = "TooManyAgendas")

\* A schedule call has failed with TooManyAgendas on a slot that holds a
\* tombstone among its MaxScheduledPerBlock entries.
C36_Witness ==
    /\ err.res = "TooManyAgendas"
    /\ err.op \in {"schedule", "schedule_named"}
    /\ err.slot \in FullSlots
    /\ \E i \in 1..Len(agenda[err.slot]) : agenda[err.slot][i] = None

(***************************************************************************)
(* Progress of a block.                                                    *)
(***************************************************************************)
\* The tasks of the list on_initialize took whose call was there to find.
Resolvable == {i \in LiveIndices(last.taken) : Resolves(Unwrap(last.taken[i + 1]))}

\* C37: a block in which a due task has a call that can be found dispatches
\* at least one task.
C37_SomeTaskDispatched ==
    Ticked /\ Resolvable # {} =>
       \E k \in 1..Len(last.steps) : DispatchedInTick(last.steps[k])

\* A built block dispatched nothing although calls were there to find: the
\* first task of the queue had no call and every other task was deferred.
NothingBehindUnresolved ==
    /\ Completed
    /\ Resolvable # {}
    /\ last.steps[1].outcome \in {"postponed", "dropped"}
    /\ \A k \in 2..Len(last.steps) : last.steps[k].outcome = "deferred"
    /\ Len(last.steps) = Cardinality(LiveIndices(last.taken))

\* A built block whose first task had its call dispatches a task.
FirstResolvedDispatched ==
    Completed /\ Len(last.steps) > 0 /\ PayloadResolved(last.steps[1]) =>
       last.steps[1].outcome = "dispatched"

(***************************************************************************)
(* Tasks in slots that on_initialize has passed.                           *)
(***************************************************************************)
\* The last block on_initialize has run for and returned from: a block in
\* which it panicked is not built.
LastProcessed == IF panicked THEN now - 1 ELSE now

\* C38: every task on_initialize(N) stores again goes to a slot after N, so
\* between the calls no task is in a slot that is not after the block
\* on_initialize ran for last.
C38_NoTaskStranded ==
    /\ Ticked => \A k \in 1..Len(last.steps) :
                    last.steps[k].outcome \in {"postponed", "deferred"}
                    \/ (last.steps[k].outcome = "dispatched"
                          /\ IsSome(last.steps[k].s.maybe_periodic))
                    => last.steps[k].target > now
    /\ \A a \in LiveAt : a[1] > LastProcessed

\* The statement of C38 for a postponement delay that is not zero.
NotStrandedWithDelay == cfg.delay # Some(0) => C38_NoTaskStranded

(***************************************************************************)
(* next_dispatch_time.                                                     *)
(***************************************************************************)
\* C39: next_dispatch_time returns Ok(slot) only for an address that holds a
\* live task, or for a name whose address in Lookup holds one; for the
\* address of a tombstone it returns an error.
C39_NextDispatchTimeOfLiveTask ==
    Callable =>
       /\ \A a \in Slots \X (0..MaxScheduledPerBlock) :
             next_dispatch_time(agenda, a[1], a[2]).ok =>
                /\ a \in LiveAt
                /\ next_dispatch_time(agenda, a[1], a[2]).when = a[1]
       /\ \A id \in Names :
             next_dispatch_time_named(agenda, lookup, id).ok =>
                /\ IsSome(lookup[id])
                /\ Unwrap(lookup[id]) \in LiveAt
                /\ next_dispatch_time_named(agenda, lookup, id).when = Unwrap(lookup[id])[1]

\* next_dispatch_time returns Ok(slot) exactly for the addresses within the
\* list of the slot, whatever the entry holds, and an error for the others.
NextDispatchTimeOfEntry ==
    Callable =>
       /\ \A a \in Slots \X (0..MaxScheduledPerBlock) :
             /\ next_dispatch_time(agenda, a[1], a[2]).ok <=> a[2] < Len(agenda[a[1]])
             /\ next_dispatch_time(agenda, a[1], a[2]).ok =>
                   next_dispatch_time(agenda, a[1], a[2]).when = a[1]
       /\ \A id \in Names :
             next_dispatch_time_named(agenda, lookup, id).ok <=>
                /\ IdFits(id) /\ IsSome(lookup[id])
                /\ Unwrap(lookup[id])[2] < Len(agenda[Unwrap(lookup[id])[1]])

(***************************************************************************)
(* What cancel_named vacates.                                              *)
(***************************************************************************)
\* The result r of a cancel_named call for the name id, when it succeeds:
\* it took a live task that carried the name, it emitted Canceled, and no
\* live task carries the name afterwards.
VacatedNamed(r, id) ==
    r.res = "Ok" =>
       /\ IsSome(r.removed)
       /\ Unwrap(r.removed).maybe_id = Some(id)
       /\ Len(r.events) = 1 /\ r.events[1].ev = "Canceled"
       /\ \A a \in StoredBy(r.agenda, Unwrap(r.removed).h.uid) : FALSE
       /\ \A s \in Slots : \A i \in 1..Len(r.agenda[s]) :
             IsSome(r.agenda[s][i]) => Unwrap(r.agenda[s][i]).maybe_id # Some(id)

\* C40: cancel_named(name) succeeds only when it vacates a live task that
\* carries the name, no live task carries the name after it, and it fails
\* with NotFound when Lookup holds for the name the address of a tombstone or
\* an index outside the list.
C40_CancelNamedVacates ==
    Callable =>
       \A origin \in Callers : \A id \in UsedNames :
          /\ VacatedNamed(cancel_named(agenda, lookup, origin, id), id)
          /\ IsSome(lookup[id]) /\ Unwrap(lookup[id]) \notin LiveAt =>
                cancel_named(agenda, lookup, origin, id).res = "NotFound"

\* The statement of C40 for the states in which Lookup holds the address of
\* every live task that carries a name.
CancelNamedWhileInLookup == NamedTasksInLookup => C40_CancelNamedVacates

=============================================================================
